---------------------------- MODULE Spec2Model ----------------------------
(***************************************************************************)
(* A model of the COSMICi server's run-coordination core:                  *)
(*   - the RunManager worker (runmgr.py) and the readiness setters of the  *)
(*     CosmicIServer (COSMICi_server.py);                                  *)
(*   - the GPS manager / GPS module proxy (gps.py);                        *)
(*   - the command handler, the SensorNet registry and the Wi-Fi module    *)
(*     proxy (commands.py, model.py, wifi.py).                             *)
(*   - SensorNet.nodeAt called from several threads (model.py);            *)
(*   - the Publisher (publisher.py) and the NMEA sentence functions        *)
(*     (nmea.py).                                                          *)
(* Each subsystem has its own next-state relation and specification; the   *)
(* variables of the other subsystems are left unchanged by it.             *)
(***************************************************************************)
EXTENDS Naturals, Integers, Sequences, FiniteSets, TLC

VARIABLES
    \* ---- RunManager (runmgr.py) and CosmicIServer setters ----
    ctu_ready,      \* RunManager.ctu_ready   : Flag state
    fedm_ready,     \* RunManager.fedm_ready  : Flag state
    good_time,      \* RunManager.good_time   : Flag state
    ctu_node,       \* RunManager.ctu_node    : node id given by yo_CTU_is_ready
    gps_time_good,  \* CosmicIServer.gps_time_good : boolean
    worklist,       \* the RunManager worker's FIFO of pending tasks
    runTask,        \* the task the RunManager worker is executing ("idle" if none)
    taskLog,        \* history: begin/end events of the worker's tasks
    startSent,      \* number of START lines CTU_Host.start() has sent
    everUp,         \* history: which flags have been raised at least once
    nCalls,         \* number of setter calls made so far
    reraised,       \* history: the flags raised again after START was sent
    \* ---- CTU host, GPS module proxy and GPS manager (ctu.py, gps.py) ----
    hostReady,      \* SensorHost.ready of the CTU host : Flag state
    gps_module,     \* the fields of node.gps_module (GPS_Module)
    gps_manager,    \* the fields of node.gps_manager (GPS_Manager) and its worker
    sentLines,      \* history: the lines sent to the CTU host, in order
    ladderLog,      \* history: satellite waits that timed out, restarts issued
    traimAt,        \* history: the last PDMETRAIM update seen by _checkTRAIM
    reissue,        \* history: per mode, a status update asked for re-enabling
    nMsgs,          \* number of host messages the CTU's reader has handled
    \* ---- command handler, registry, Wi-Fi modules ----
    nodes,          \* SensorNet.nodes : node id -> SensorNode (with submodules)
    nServers,       \* number of BridgeServer objects created so far
    servers,        \* the BridgeServer objects, by serial number
    nCmds,          \* number of commands the command handler has processed
    lastCmd,        \* history: the last command processed
    repeated,       \* history: the last command repeats the one before it
    lastSend,       \* history: the last sendHost call and what it transmitted
    cmdLog,         \* history: error/warning records logged for the last command
    escaped,        \* history: the last process() call ended by an exception
    nodeLogged,     \* history: what the last command gave to a node's logger
    \* ---- threads calling SensorNet.nodeAt (model.py) ----
    nat,            \* per thread: where it is in nodeAt, and its arguments
    writeLock,      \* SensorNet.writeLock : the thread holding it (0 if free)
    created,        \* history: SensorNode objects constructed, per node id
    \* ---- Publisher (publisher.py) ----
    subscriptions,  \* Publisher._subscriptions : title -> list of subscribers
    subLog,         \* history: the subscribe calls made, in order
    pub,            \* the publish() call under way or last made
    \* ---- NMEA sentences (nmea.py) ----
    nmea,           \* a string, the sentence made of it, and what stripping gave
    \* ---- threads calling the GPS-time setters of CosmicIServer ----
    yo              \* per thread: where it is in yo_GPS_time_is_good/_nogood

runVars == <<ctu_ready, fedm_ready, good_time, ctu_node, gps_time_good,
             worklist, runTask, taskLog, startSent, everUp, nCalls, reraised>>

gpsVars == <<hostReady, gps_module, gps_manager, sentLines, ladderLog,
             traimAt, reissue, nMsgs>>

cmdVars == <<nodes, nServers, servers, nCmds, lastCmd, repeated, lastSend, cmdLog,
             escaped, nodeLogged>>

natVars == <<nat, writeLock, created>>

pubVars == <<subscriptions, subLog, pub>>

vars == <<runVars, gpsVars, cmdVars, natVars, pubVars, nmea, yo>>

\* what each subsystem leaves alone
runFrame == <<gpsVars, cmdVars, natVars, pubVars, nmea, yo>>
gpsFrame == <<cmdVars, natVars, pubVars, nmea, yo>>
cmdFrame == <<runVars, gpsVars, natVars, pubVars, nmea, yo>>
natFrame == <<runVars, gpsVars, nServers, servers, nCmds, lastCmd, repeated, lastSend,
              cmdLog, escaped, nodeLogged, pubVars, nmea, yo>>
pubFrame == <<runVars, gpsVars, cmdVars, natVars, nmea, yo>>
nmeaFrame == <<runVars, gpsVars, cmdVars, natVars, pubVars, yo>>
yoFrame == <<gpsVars, cmdVars, natVars, pubVars, nmea>>

---------------------------------------------------------------------------
(* Bounds of the model.                                                    *)

\* The producers make at most this many setter calls on the RunManager.
MaxCalls == 6

\* The strings given to makeNMEA have at most this many characters.
MaxLen == 3

\* At most this many subscribe calls are made on the Publisher.
MaxSubs == 3

\* The CTU's reader thread handles at most this many host messages.
MaxMsgs == 8

\* The command handler processes at most this many commands.
MaxCmds == 2

\* A GPGGA sentence reports at most this many satellites in use.
MaxSats == 2

\* Node ids of the sensor network seen in commands
NodeIds == {0, 1}
NoNode == -1

---------------------------------------------------------------------------
(* flag.Flag: a boolean guarded by a lock/condition pair.                  *)

\* Flag.rise(): the flag is up afterwards, whatever it was before.
FlagRise(f) == TRUE

\* Flag.fall(): the flag is down afterwards, whatever it was before.
FlagFall(f) == FALSE

\* Flag.waitUp() without timeout returns only when the flag is up.
WaitUpReturns(f) == f = TRUE

\* bool(flag): a Flag used in a condition stands for its state.
FlagBool(f) == f

---------------------------------------------------------------------------
(* RunManager: the startup sequence and the worker that executes it.       *)

\* A plausible slip: the wait for good GPS time is not queued.
StartupSequence_NoWaitGoodTime ==
    << "_wait_CTU_ready", "_wait_FEDM_ready",
       "_startTimekeeper", "_startDataCollector", "_start_CTU" >>

\* A plausible slip: the start task is queued twice.
StartupSequence_StartTwice ==
    << "_wait_CTU_ready", "_wait_FEDM_ready", "_wait_good_time",
       "_startTimekeeper", "_start_CTU", "_startDataCollector", "_start_CTU" >>

\* A plausible slip: the CTU is started before the data collector.
StartupSequence_Reordered ==
    << "_wait_CTU_ready", "_wait_FEDM_ready", "_wait_good_time",
       "_startTimekeeper", "_start_CTU", "_startDataCollector" >>

\* A plausible slip: the start task is never queued.
StartupSequence_NoStart ==
    << "_wait_CTU_ready", "_wait_FEDM_ready", "_wait_good_time",
       "_startTimekeeper", "_startDataCollector" >>

\* RunManager._queueStartupSequence: the six tasks, in the order queued.
StartupSequence ==
    << "_wait_CTU_ready", "_wait_FEDM_ready", "_wait_good_time",
       "_startTimekeeper", "_startDataCollector", "_start_CTU" >>

\* RunManager.__init__: three flags down, initialTask = _queueStartupSequence,
\* and the worker thread started; CosmicIServer.__init__: gps_time_good False.
RunInit ==
    /\ ctu_ready = FALSE
    /\ fedm_ready = FALSE
    /\ good_time = FALSE
    /\ ctu_node = NoNode
    /\ gps_time_good = FALSE
    /\ worklist = << "_queueStartupSequence" >>
    /\ runTask = "idle"
    /\ taskLog = << >>
    /\ startSent = 0
    /\ everUp = [f \in {"ctu", "fedm", "time"} |-> FALSE]
    /\ nCalls = 0
    /\ reraised = {}

\* RunManager.yo_CTU_is_ready(ctu_node): remember the node, raise ctu_ready.
RM_yo_CTU_is_ready(n) ==
    /\ ctu_node' = n
    /\ ctu_ready' = FlagRise(ctu_ready)
    /\ everUp' = [everUp EXCEPT !["ctu"] = TRUE]
    /\ reraised' = (IF startSent > 0 THEN reraised \cup {"ctu"} ELSE reraised)

\* RunManager.yo_FEDM_is_ready(fedm_node): raise fedm_ready.
RM_yo_FEDM_is_ready(n) ==
    /\ fedm_ready' = FlagRise(fedm_ready)
    /\ everUp' = [everUp EXCEPT !["fedm"] = TRUE]
    /\ reraised' = (IF startSent > 0 THEN reraised \cup {"fedm"} ELSE reraised)

\* RunManager.yo_GPS_time_is_good(): raise good_time.
RM_yo_GPS_time_is_good ==
    /\ good_time' = FlagRise(good_time)
    /\ everUp' = [everUp EXCEPT !["time"] = TRUE]
    /\ reraised' = (IF startSent > 0 THEN reraised \cup {"time"} ELSE reraised)

\* RunManager.yo_GPS_time_is_nogood(): lower good_time.
RM_yo_GPS_time_is_nogood ==
    /\ good_time' = FlagFall(good_time)
    /\ UNCHANGED <<everUp, reraised>>

\* CosmicIServer.yo_GPS_time_is_good(): forwards only a change of value.
CIS_GPS_time_is_good ==
    IF ~gps_time_good
    THEN /\ gps_time_good' = TRUE
         /\ RM_yo_GPS_time_is_good
    ELSE UNCHANGED <<gps_time_good, good_time, everUp, reraised>>

\* CosmicIServer.yo_GPS_time_is_nogood(): forwards only a change of value.
CIS_GPS_time_is_nogood ==
    IF gps_time_good
    THEN /\ gps_time_good' = FALSE
         /\ RM_yo_GPS_time_is_nogood
    ELSE UNCHANGED <<gps_time_good, good_time, everUp, reraised>>

\* CosmicIServer.yo_CTU_is_ready(ctu_node), called by a producer thread
yo_CTU_is_ready(n) ==
    /\ nCalls < MaxCalls
    /\ nCalls' = nCalls + 1
    /\ RM_yo_CTU_is_ready(n)
    /\ UNCHANGED <<fedm_ready, good_time, gps_time_good, worklist, runTask,
                   taskLog, startSent>>

\* CosmicIServer.yo_FEDM_is_ready(fedm_node), called by a producer thread
yo_FEDM_is_ready(n) ==
    /\ nCalls < MaxCalls
    /\ nCalls' = nCalls + 1
    /\ RM_yo_FEDM_is_ready(n)
    /\ UNCHANGED <<ctu_ready, good_time, ctu_node, gps_time_good, worklist,
                   runTask, taskLog, startSent>>

\* CosmicIServer.yo_GPS_time_is_good(), called by a producer thread
yo_GPS_time_is_good ==
    /\ nCalls < MaxCalls
    /\ nCalls' = nCalls + 1
    /\ CIS_GPS_time_is_good
    /\ UNCHANGED <<ctu_ready, fedm_ready, ctu_node, worklist, runTask,
                   taskLog, startSent>>

\* CosmicIServer.yo_GPS_time_is_nogood(), called by a producer thread
yo_GPS_time_is_nogood ==
    /\ nCalls < MaxCalls
    /\ nCalls' = nCalls + 1
    /\ CIS_GPS_time_is_nogood
    /\ UNCHANGED <<ctu_ready, fedm_ready, ctu_node, worklist, runTask,
                   taskLog, startSent>>

\* Worker loop: take the next task off the head of the worklist and begin it.
WorkerTake ==
    /\ runTask = "idle"
    /\ worklist # << >>
    /\ runTask' = Head(worklist)
    /\ worklist' = Tail(worklist)
    /\ taskLog' = Append(taskLog, <<"begin", Head(worklist)>>)
    /\ UNCHANGED <<ctu_ready, fedm_ready, good_time, ctu_node, gps_time_good,
                   startSent, everUp, nCalls, reraised>>

\* the running task returns to the worker loop
TaskEnds(t) ==
    /\ runTask = t
    /\ runTask' = "idle"
    /\ taskLog' = Append(taskLog, <<"end", t>>)

\* RunManager._queueStartupSequence: self(task) for each task, in order.
RM_queueStartupSequence ==
    /\ TaskEnds("_queueStartupSequence")
    /\ worklist' = worklist \o StartupSequence
    /\ UNCHANGED <<ctu_ready, fedm_ready, good_time, ctu_node, gps_time_good,
                   startSent, everUp, nCalls, reraised>>

\* RunManager._wait_CTU_ready: self.ctu_ready.waitUp()
RM_wait_CTU_ready ==
    /\ TaskEnds("_wait_CTU_ready")
    /\ WaitUpReturns(ctu_ready)
    /\ UNCHANGED <<ctu_ready, fedm_ready, good_time, ctu_node, gps_time_good,
                   worklist, startSent, everUp, nCalls, reraised>>

\* RunManager._wait_FEDM_ready: self.fedm_ready.waitUp()
RM_wait_FEDM_ready ==
    /\ TaskEnds("_wait_FEDM_ready")
    /\ WaitUpReturns(fedm_ready)
    /\ UNCHANGED <<ctu_ready, fedm_ready, good_time, ctu_node, gps_time_good,
                   worklist, startSent, everUp, nCalls, reraised>>

\* RunManager._wait_good_time: self.good_time.waitUp()
RM_wait_good_time ==
    /\ TaskEnds("_wait_good_time")
    /\ WaitUpReturns(good_time)
    /\ UNCHANGED <<ctu_ready, fedm_ready, good_time, ctu_node, gps_time_good,
                   worklist, startSent, everUp, nCalls, reraised>>

\* RunManager._startTimekeeper: only logs a warning (not implemented).
RM_startTimekeeper ==
    /\ TaskEnds("_startTimekeeper")
    /\ UNCHANGED <<ctu_ready, fedm_ready, good_time, ctu_node, gps_time_good,
                   worklist, startSent, everUp, nCalls, reraised>>

\* RunManager._startDataCollector: only logs a warning (not implemented).
RM_startDataCollector ==
    /\ TaskEnds("_startDataCollector")
    /\ UNCHANGED <<ctu_ready, fedm_ready, good_time, ctu_node, gps_time_good,
                   worklist, startSent, everUp, nCalls, reraised>>

\* RunManager._start_CTU: self.ctu_node.start() -> CTU_Host.start() sends START.
RM_start_CTU ==
    /\ TaskEnds("_start_CTU")
    /\ ctu_node # NoNode
    /\ startSent' = startSent + 1
    /\ UNCHANGED <<ctu_ready, fedm_ready, good_time, ctu_node, gps_time_good,
                   worklist, everUp, nCalls, reraised>>

\* every step of the RunManager's worker thread
RunWorker ==
    \/ WorkerTake
    \/ RM_queueStartupSequence
    \/ RM_wait_CTU_ready
    \/ RM_wait_FEDM_ready
    \/ RM_wait_good_time
    \/ RM_startTimekeeper
    \/ RM_startDataCollector
    \/ RM_start_CTU

\* every call a producer thread can make on the RunManager
RunSetters ==
    \/ \E n \in NodeIds : yo_CTU_is_ready(n)
    \/ \E n \in NodeIds : yo_FEDM_is_ready(n)
    \/ yo_GPS_time_is_good
    \/ yo_GPS_time_is_nogood

RunNext ==
    \/ RunWorker /\ UNCHANGED runFrame
    \/ RunSetters /\ UNCHANGED runFrame

---------------------------------------------------------------------------
(* GPS module proxy (GPS_Module) and GPS manager (GPS_Manager), gps.py.    *)

\* GPS_Module class constants
TRAIM_VALID_NO == 0
TRAIM_VALID_YES == 1
PDME_COLD_START == 0
PDME_WARM_START == 1
PDME_HOT_START == 2
PDME_INIT_POS_TIME == 9
PDME_POSHOLD_CTRL == 21
PDME_TRAIM_CTRL == 22

\* GPS_Module.nSats before the first GPGGA sentence (None)
NoSats == -1

\* GPS-minus-system time differences, in seconds, carried by GPRMC sentences
Deltas == {-61, -60, -10, 0, 11, 60, 61}

\* PDMETRAIM records (timeError in nanoseconds): valid and invalid ones, an
\* unlisted validity code, all or some satellites removed, null, negative,
\* limit and over-limit uncertainties
TraimRecs ==
    { [solutNum |-> 0, validNum |-> 1, timeError |-> 50, nBadSats |-> 0],
      [solutNum |-> 1, validNum |-> 1, timeError |-> 100, nBadSats |-> 1],
      [solutNum |-> 0, validNum |-> 0, timeError |-> 50, nBadSats |-> 0],
      [solutNum |-> 2, validNum |-> 2, timeError |-> 50, nBadSats |-> 0],
      [solutNum |-> 1, validNum |-> 1, timeError |-> 50, nBadSats |-> 2],
      [solutNum |-> 0, validNum |-> 1, timeError |-> 0, nBadSats |-> 0],
      [solutNum |-> 0, validNum |-> 1, timeError |-> 101, nBadSats |-> 0],
      [solutNum |-> 0, validNum |-> 1, timeError |-> -5, nBadSats |-> 0] }

\* GPS_Module.__init__, GPS_Manager.__init__ and the CTU host before HOST_READY
GpsInit ==
    /\ hostReady = FALSE
    /\ gps_module = [resetting |-> FALSE, TRAIM_on |-> FALSE,
                     POSHOLD_on |-> FALSE, nSats |-> NoSats, gotSats |-> FALSE,
                     subs |-> {}, gprmc_inbox |-> << >>, pdme_inbox |-> << >>,
                     lock |-> "none"]
    /\ gps_manager = [badTime |-> FALSE, turningOnTRAIM |-> FALSE,
                      turningOnPOSHOLD |-> FALSE,
                      worklist |-> << "_queueStartupSequence" >>,
                      task |-> "idle", pc |-> "idle", ret |-> "idle", rung |-> 0]
    /\ sentLines = << >>
    /\ ladderLog = << >>
    /\ traimAt = << >>
    /\ reissue = [m \in {"TRAIM", "POSHOLD"} |->
                    [owed |-> FALSE, due |-> FALSE]]
    /\ nMsgs = 0

\* the manager's worker is blocked in gprmc_inbox.wait()
AwaitsGPRMC == gps_manager.pc = "time_wait"

\* the manager's worker is blocked in pdme_inbox.wait()
AwaitsPDME == gps_manager.pc \in {"time_ack", "poshold_ack", "traim_ack"}

\* GPS_Manager._checkTime: the badTime flag after a GPRMC with delta d seconds
checkTime(d) ==
    IF d < -10 THEN FlagRise(gps_manager.badTime)
    ELSE IF d > 10 THEN FlagRise(gps_manager.badTime)
    ELSE FlagFall(gps_manager.badTime)

\* GPS_Manager._checkTRAIM: the value of good_TRAIM at the final test
good_TRAIM(rec) ==
    /\ rec.validNum # TRAIM_VALID_NO
    /\ ~(rec.nBadSats > 0 /\ rec.nBadSats >= gps_module.nSats)
    /\ rec.timeError # 0
    /\ ~(rec.timeError > 100)

\* A plausible slip: a bad time delta is ignored by the final test.
reportsGood_IgnoresBadTime(rec) == good_TRAIM(rec)

\* GPS_Manager._checkTRAIM: the final test, "good_TRAIM and not inst.badTime"
reportsGood(rec) == good_TRAIM(rec) /\ ~FlagBool(gps_manager.badTime)

\* history: a status update asks for a mode to be enabled again; the request
\* is due unless a _turnOnXXX call has sent the command and is yet to return
Asked(sentAlready, r) == [owed |-> TRUE, due |-> r.due \/ ~sentAlready]

\* history: the enabling command has been sent
Issued == [owed |-> FALSE, due |-> FALSE]

\* A plausible slip: the flag is raised but the task is not queued.
checkTRAIM_NoTask(rec) ==
    /\ gps_manager' =
         IF rec.validNum = TRAIM_VALID_NO /\ ~gps_manager.turningOnTRAIM
         THEN [gps_manager EXCEPT !.turningOnTRAIM = FlagRise(@)]
         ELSE gps_manager
    /\ reissue' =
         IF rec.validNum = TRAIM_VALID_NO
         THEN [reissue EXCEPT !.TRAIM = Asked(gps_manager.pc = "traim_ack", @)]
         ELSE reissue
    /\ traimAt' = << [rec |-> rec, nSats |-> gps_module.nSats,
                      badTime |-> gps_manager.badTime,
                      good_TRAIM |-> good_TRAIM(rec),
                      report |-> IF reportsGood(rec) THEN "good" ELSE "nogood"] >>
    /\ IF reportsGood(rec) THEN CIS_GPS_time_is_good ELSE CIS_GPS_time_is_nogood

\* A plausible slip: the task is queued without raising the flag, which is
\* then up only while the task runs.
checkTRAIM_NoRise(rec) ==
    /\ gps_manager' =
         IF rec.validNum = TRAIM_VALID_NO /\ ~gps_manager.turningOnTRAIM
         THEN [gps_manager EXCEPT !.worklist = Append(@, "_turnOnTRAIM")]
         ELSE gps_manager
    /\ reissue' =
         IF rec.validNum = TRAIM_VALID_NO
         THEN [reissue EXCEPT !.TRAIM = Asked(gps_manager.pc = "traim_ack", @)]
         ELSE reissue
    /\ traimAt' = << [rec |-> rec, nSats |-> gps_module.nSats,
                      badTime |-> gps_manager.badTime,
                      good_TRAIM |-> good_TRAIM(rec),
                      report |-> IF reportsGood(rec) THEN "good" ELSE "nogood"] >>
    /\ IF reportsGood(rec) THEN CIS_GPS_time_is_good ELSE CIS_GPS_time_is_nogood

\* GPS_Manager._checkTRAIM, run by the reader thread as subscriber callback
checkTRAIM(rec) ==
    /\ gps_manager' =
         IF rec.validNum = TRAIM_VALID_NO /\ ~gps_manager.turningOnTRAIM
         THEN [gps_manager EXCEPT
                 !.turningOnTRAIM = FlagRise(@),
                 !.worklist = Append(@, "_turnOnTRAIM")]
         ELSE gps_manager
    /\ reissue' =
         IF rec.validNum = TRAIM_VALID_NO
         THEN [reissue EXCEPT !.TRAIM = Asked(gps_manager.pc = "traim_ack", @)]
         ELSE reissue
    /\ traimAt' = << [rec |-> rec, nSats |-> gps_module.nSats,
                      badTime |-> gps_manager.badTime,
                      good_TRAIM |-> good_TRAIM(rec),
                      report |-> IF reportsGood(rec) THEN "good" ELSE "nogood"] >>
    /\ IF reportsGood(rec) THEN CIS_GPS_time_is_good ELSE CIS_GPS_time_is_nogood

\* A plausible slip: the flag is raised but the task is not queued.
checkPOSHOLD_NoTask(onOffNum) ==
    /\ gps_manager' =
         IF onOffNum # 1 /\ ~gps_manager.turningOnPOSHOLD
         THEN [gps_manager EXCEPT !.turningOnPOSHOLD = FlagRise(@)]
         ELSE gps_manager
    /\ reissue' =
         IF onOffNum # 1
         THEN [reissue EXCEPT
                 !.POSHOLD = Asked(gps_manager.pc = "poshold_ack", @)]
         ELSE reissue

\* GPS_Manager._checkPOSHOLD, run by the reader thread as subscriber callback
checkPOSHOLD(onOffNum) ==
    /\ gps_manager' =
         IF onOffNum # 1 /\ ~gps_manager.turningOnPOSHOLD
         THEN [gps_manager EXCEPT
                 !.turningOnPOSHOLD = FlagRise(@),
                 !.worklist = Append(@, "_turnOnPOSHOLD")]
         ELSE gps_manager
    /\ reissue' =
         IF onOffNum # 1
         THEN [reissue EXCEPT
                 !.POSHOLD = Asked(gps_manager.pc = "poshold_ack", @)]
         ELSE reissue

\* A plausible slip: a thread that waits keeps the lock it holds.
CondWait_KeepsLock(owner) == owner

\* Flag.waitFall() and WatchBox.wait() block on the condition variable of the
\* lock they were built on, here GPS_Module._lock: while its caller is
\* blocked the lock is given up, at whatever depth the caller had taken it.
\* The result is the thread that holds the lock during the wait.
CondWait(owner) == "none"

\* the reader thread has taken one more host message; every handler takes
\* GPS_Module._lock, itself or through the flag or inbox it updates
ReaderTakes ==
    /\ gps_module.lock = "none"
    /\ nMsgs < MaxMsgs
    /\ nMsgs' = nMsgs + 1

\* CTU_Host._handleHostReady: ready.rise(), send UNMUTE, cis.yo_CTU_is_ready
\* (the host announces HOST_READY once; n is the CTU's node)
HandleHostReady(n) ==
    /\ ReaderTakes
    /\ ~hostReady
    /\ hostReady' = FlagRise(hostReady)
    /\ sentLines' = Append(sentLines, "UNMUTE")
    /\ RM_yo_CTU_is_ready(n)
    /\ UNCHANGED <<gps_module, gps_manager, ladderLog, traimAt, reissue>>
    /\ UNCHANGED <<fedm_ready, good_time, gps_time_good, worklist, runTask,
                   taskLog, startSent, nCalls>>

\* GPS_Module._handleGPRMC: inbox update, then publish to _checkTime
HandleGPRMC(d) ==
    /\ ReaderTakes
    /\ gps_module' = [gps_module EXCEPT
                        !.gprmc_inbox = IF AwaitsGPRMC THEN <<d>> ELSE @]
    /\ gps_manager' = [gps_manager EXCEPT
                         !.badTime = IF "_checkTime" \in gps_module.subs
                                     THEN checkTime(d) ELSE @]
    /\ UNCHANGED <<hostReady, sentLines, ladderLog, traimAt, reissue, runVars>>

\* GPS_Module._handleGPGGA: nSats and gotSats (subscriber _check_nSats only logs)
HandleGPGGA(n) ==
    /\ ReaderTakes
    /\ gps_module' = [gps_module EXCEPT !.nSats = n, !.gotSats = (n >= 1)]
    /\ UNCHANGED <<hostReady, gps_manager, sentLines, ladderLog, traimAt,
                   reissue, runVars>>

\* GPS_Module._handlePDME: the acknowledgement goes to pdme_inbox
HandlePDME(c, ok) ==
    /\ ReaderTakes
    /\ gps_module' = [gps_module EXCEPT
                        !.pdme_inbox = IF AwaitsPDME
                                       THEN << [cmdCode |-> c, ok |-> ok] >>
                                       ELSE @]
    /\ UNCHANGED <<hostReady, gps_manager, sentLines, ladderLog, traimAt,
                   reissue, runVars>>

\* the PDME code whose acknowledgement the manager's worker is waiting for
AwaitedCode ==
    CASE gps_manager.pc = "time_ack" -> PDME_INIT_POS_TIME
      [] gps_manager.pc = "poshold_ack" -> PDME_POSHOLD_CTRL
      [] gps_manager.pc = "traim_ack" -> PDME_TRAIM_CTRL

\* The GPS module acknowledges the command the worker is waiting on: the
\* reader's _handlePDME puts the reply into pdme_inbox.  The reply answers a
\* command, so it is not one of the MaxMsgs unsolicited host messages.
PDME_Acknowledged ==
    /\ gps_module.lock = "none"
    /\ AwaitsPDME
    /\ gps_module.pdme_inbox = << >>
    /\ gps_module' = [gps_module EXCEPT
                        !.pdme_inbox = << [cmdCode |-> AwaitedCode,
                                           ok |-> "OK"] >>]
    /\ UNCHANGED <<hostReady, gps_manager, sentLines, ladderLog, traimAt,
                   reissue, nMsgs, runVars>>

\* GPS_Module._handlePDMETRAIM: publish the record to _checkTRAIM
HandlePDMETRAIM(rec) ==
    /\ ReaderTakes
    /\ IF "_checkTRAIM" \in gps_module.subs
       THEN checkTRAIM(rec)
       ELSE UNCHANGED <<gps_manager, traimAt, reissue, gps_time_good, good_time,
                        everUp, reraised>>
    /\ UNCHANGED <<hostReady, gps_module, sentLines, ladderLog>>
    /\ UNCHANGED <<ctu_ready, fedm_ready, ctu_node, worklist, runTask,
                   taskLog, startSent, nCalls>>

\* GPS_Module._handlePDMEPOSHOLD: publish the record to _checkPOSHOLD
HandlePDMEPOSHOLD(onOffNum) ==
    /\ ReaderTakes
    /\ IF "_checkPOSHOLD" \in gps_module.subs
       THEN checkPOSHOLD(onOffNum)
       ELSE UNCHANGED <<gps_manager, reissue>>
    /\ UNCHANGED <<hostReady, gps_module, sentLines, ladderLog, traimAt, runVars>>

\* A plausible slip: only the first header message raises the resetting flag.
HandlePDMEHEADER_FirstOnly(k) ==
    /\ ReaderTakes
    /\ gps_module' =
         IF k = 1
         THEN [gps_module EXCEPT !.resetting = FlagRise(@),
                                 !.POSHOLD_on = FlagFall(@),
                                 !.TRAIM_on = FlagFall(@)]
         ELSE gps_module
    /\ UNCHANGED <<hostReady, gps_manager, sentLines, ladderLog, traimAt,
                   reissue, runVars>>

\* GPS_Module._handlePDMEHEADER1 (k = 1) and _handlePDMEHEADER2 (k = 2)
HandlePDMEHEADER(k) ==
    /\ ReaderTakes
    /\ gps_module' =
         IF k = 1
         THEN [gps_module EXCEPT !.resetting = FlagRise(@),
                                 !.POSHOLD_on = FlagFall(@),
                                 !.TRAIM_on = FlagFall(@)]
         ELSE [gps_module EXCEPT !.resetting = FlagRise(@)]
    /\ UNCHANGED <<hostReady, gps_manager, sentLines, ladderLog, traimAt,
                   reissue, runVars>>

\* GPS_Module._handleGPTXT: the last message of a reset sequence
HandleGPTXT ==
    /\ ReaderTakes
    /\ gps_module' = [gps_module EXCEPT !.resetting = FlagFall(@)]
    /\ UNCHANGED <<hostReady, gps_manager, sentLines, ladderLog, traimAt,
                   reissue, runVars>>

\* every host message the CTU's reader thread can handle
GpsReader ==
    \/ \E n \in {0} : HandleHostReady(n)
    \/ \E d \in Deltas : HandleGPRMC(d)
    \/ \E n \in 0..MaxSats : HandleGPGGA(n)
    \/ \E c \in {PDME_INIT_POS_TIME, PDME_POSHOLD_CTRL, PDME_TRAIM_CTRL},
          ok \in {"OK", "ERR"} : HandlePDME(c, ok)
    \/ \E rec \in TraimRecs : HandlePDMETRAIM(rec)
    \/ \E onOffNum \in {0, 1} : HandlePDMEPOSHOLD(onOffNum)
    \/ \E k \in {1, 2} : HandlePDMEHEADER(k)
    \/ HandleGPTXT

\* GPS_Module._send_PDME_cmd via sendLine: the line handed to the CTU host
\* (arguments and NMEA framing left out)
PDME_line(code) == "GPS $PDME," \o ToString(code)

\* the PDME code sent by GPS_Module.hotStart, warmStart and coldStart
RestartCode(kind) ==
    CASE kind = "hotStart" -> PDME_HOT_START
      [] kind = "warmStart" -> PDME_WARM_START
      [] kind = "coldStart" -> PDME_COLD_START

\* A plausible slip: the warm restart is left out of the ladder.
EnsureSatsLadder_NoWarm ==
    << [wait |-> 5, then |-> "hotStart"],
       [wait |-> 40, then |-> "coldStart"],
       [wait |-> 300, then |-> "waitUp"] >>

\* GPS_Manager._ensureSats: the timeout of each gotSats.waitUp(), in seconds,
\* and what follows when it expires
EnsureSatsLadder ==
    << [wait |-> 5, then |-> "hotStart"],
       [wait |-> 5, then |-> "warmStart"],
       [wait |-> 40, then |-> "coldStart"],
       [wait |-> 300, then |-> "waitUp"] >>

\* the manager's worker is at position pc
GM_at(pc) == gps_manager.task # "idle" /\ gps_manager.pc = pc

\* the running task of the manager returns to the worker loop
GM_done(m) == [m EXCEPT !.task = "idle", !.pc = "idle"]

\* Worker loop of the GPS manager: take the next task off the worklist.
GM_Take ==
    /\ gps_manager.task = "idle"
    /\ gps_manager.worklist # << >>
    /\ gps_manager' = [gps_manager EXCEPT
                         !.task = Head(gps_manager.worklist),
                         !.pc = Head(gps_manager.worklist),
                         !.worklist = Tail(@)]
    /\ UNCHANGED <<hostReady, gps_module, sentLines, ladderLog, traimAt, reissue, nMsgs,
                   runVars>>

\* A plausible slip: monitoring is queued ahead of the initialisation.
GM_queueStartupSequence_MonitorFirst ==
    /\ GM_at("_queueStartupSequence")
    /\ gps_manager' = GM_done([gps_manager EXCEPT
                         !.worklist = @ \o << "_waitHostReady",
                                              "_monitorGPS",
                                              "_initializeGPS" >>])
    /\ UNCHANGED <<hostReady, gps_module, sentLines, ladderLog, traimAt, reissue, nMsgs,
                   runVars>>

\* GPS_Manager._queueStartupSequence
GM_queueStartupSequence ==
    /\ GM_at("_queueStartupSequence")
    /\ gps_manager' = GM_done([gps_manager EXCEPT
                         !.worklist = @ \o << "_waitHostReady",
                                              "_initializeGPS",
                                              "_monitorGPS" >>])
    /\ UNCHANGED <<hostReady, gps_module, sentLines, ladderLog, traimAt, reissue, nMsgs,
                   runVars>>

\* A plausible slip: the startup sequence goes on without waiting for the host.
GM_waitHostReady_NoWait ==
    /\ GM_at("_waitHostReady")
    /\ gps_manager' = GM_done(gps_manager)
    /\ UNCHANGED <<hostReady, gps_module, sentLines, ladderLog, traimAt, reissue, nMsgs,
                   runVars>>

\* GPS_Manager._waitHostReady: sensor_host.ready.waitUp()
GM_waitHostReady ==
    /\ GM_at("_waitHostReady")
    /\ WaitUpReturns(hostReady)
    /\ gps_manager' = GM_done(gps_manager)
    /\ UNCHANGED <<hostReady, gps_module, sentLines, ladderLog, traimAt, reissue, nMsgs,
                   runVars>>

\* GPS_Manager._initializeGPS up to its first wait: _setupTimeMonitoring,
\* then _initTimeIfNeeded starts waiting for the next GPRMC
GM_setupTimeMonitoring ==
    /\ GM_at("_initializeGPS")
    /\ gps_module' = [gps_module EXCEPT !.subs = @ \cup {"_checkTime"},
                                        !.gprmc_inbox = << >>]
    /\ gps_manager' = [gps_manager EXCEPT !.pc = "time_wait",
                                          !.ret = "_ensureSats"]
    /\ UNCHANGED <<hostReady, sentLines, ladderLog, traimAt, reissue, nMsgs, runVars>>

\* GPS_Manager._initTimeIfNeeded once gprmc_inbox.wait() has returned: when the
\* delta is beyond one minute, _init_GPS_time sends $PDME,9 and waits for it
GM_initTimeIfNeeded ==
    /\ GM_at("time_wait")
    /\ gps_module.gprmc_inbox # << >>
    /\ LET td == gps_module.gprmc_inbox[1] IN
         IF td < -60 \/ td > 60
         THEN /\ sentLines' = Append(sentLines, PDME_line(PDME_INIT_POS_TIME))
              /\ gps_module' = [gps_module EXCEPT !.pdme_inbox = << >>,
                                                  !.lock = CondWait("worker")]
              /\ gps_manager' = [gps_manager EXCEPT !.pc = "time_ack"]
         ELSE /\ gps_manager' = [gps_manager EXCEPT !.pc = gps_manager.ret]
              /\ UNCHANGED <<sentLines, gps_module>>
    /\ UNCHANGED <<hostReady, ladderLog, traimAt, reissue, nMsgs, runVars>>

\* GPS_Module.initPosTime after _wait_PDME_conf has returned
GM_initPosTimeDone ==
    /\ GM_at("time_ack")
    /\ gps_module.pdme_inbox # << >>
    /\ gps_module' = [gps_module EXCEPT !.TRAIM_on = FlagRise(@),
                                        !.lock = "none"]
    /\ gps_manager' = [gps_manager EXCEPT !.pc = gps_manager.ret]
    /\ UNCHANGED <<hostReady, sentLines, ladderLog, traimAt, reissue, nMsgs, runVars>>

\* GPS_Manager._ensureSats: the entry test
GM_ensureSats ==
    /\ GM_at("_ensureSats")
    /\ gps_manager' =
         IF gps_module.nSats = NoSats \/ ~FlagBool(gps_module.gotSats)
         THEN [gps_manager EXCEPT !.pc = "sats_wait", !.rung = 1]
         ELSE [gps_manager EXCEPT !.pc = "_turnOnPOSHOLD"]
    /\ UNCHANGED <<hostReady, gps_module, sentLines, ladderLog, traimAt, reissue, nMsgs,
                   runVars>>

\* GPS_Manager._ensureSats: a gotSats.waitUp(...) returns True
GM_gotSats ==
    /\ GM_at("sats_wait")
    /\ WaitUpReturns(gps_module.gotSats)
    /\ gps_manager' = [gps_manager EXCEPT !.pc = "_turnOnPOSHOLD"]
    /\ UNCHANGED <<hostReady, gps_module, sentLines, ladderLog, traimAt, reissue, nMsgs,
                   runVars>>

\* GPS_Manager._ensureSats: a gotSats.waitUp(timeout) times out; the restart
\* of this rung is issued (resetting.rise(), $PDME code sent) and the worker
\* waits for the reset to finish; after the last timed wait it waits for good
GM_satsTimeout ==
    /\ GM_at("sats_wait")
    /\ gps_manager.rung <= Len(EnsureSatsLadder)
    /\ ~gps_module.gotSats
    /\ LET r == EnsureSatsLadder[gps_manager.rung] IN
         IF r.then = "waitUp"
         THEN /\ ladderLog' = Append(ladderLog, <<"wait", ToString(r.wait)>>)
              /\ gps_manager' = [gps_manager EXCEPT !.rung = @ + 1]
              /\ UNCHANGED <<gps_module, sentLines>>
         ELSE /\ ladderLog' = ladderLog \o << <<"wait", ToString(r.wait)>>,
                                              <<"restart", r.then>> >>
              /\ gps_module' = [gps_module EXCEPT !.resetting = FlagRise(@),
                                                  !.lock = CondWait("worker")]
              /\ sentLines' = Append(sentLines, PDME_line(RestartCode(r.then)))
              /\ gps_manager' = [gps_manager EXCEPT !.pc = "reset_wait",
                                                    !.ret = "sats_wait",
                                                    !.rung = @ + 1]
    /\ UNCHANGED <<hostReady, traimAt, reissue, nMsgs, runVars>>

\* A plausible slip: after a restart the clock is not looked at again.
GM_restartDone_NoRecheck ==
    /\ GM_at("reset_wait")
    /\ ~gps_module.resetting
    /\ gps_manager' = [gps_manager EXCEPT !.pc = gps_manager.ret]
    /\ UNCHANGED <<hostReady, gps_module, sentLines, ladderLog, traimAt,
                   reissue, nMsgs, runVars>>

\* GPS_Module._wait_PDME_conf of a restart: resetting.waitFall() returns, and
\* the manager's _xxxRestartGPS goes on to _initTimeIfNeeded
GM_restartDone ==
    /\ GM_at("reset_wait")
    /\ ~gps_module.resetting
    /\ gps_module' = [gps_module EXCEPT !.gprmc_inbox = << >>,
                                        !.lock = "none"]
    /\ gps_manager' = [gps_manager EXCEPT !.pc = "time_wait"]
    /\ UNCHANGED <<hostReady, sentLines, ladderLog, traimAt, reissue, nMsgs, runVars>>

\* GPS_Manager._turnOnPOSHOLD up to the wait inside holdPos ($PDME,21)
GM_turnOnPOSHOLD ==
    /\ GM_at("_turnOnPOSHOLD")
    /\ sentLines' = Append(sentLines, PDME_line(PDME_POSHOLD_CTRL))
    /\ gps_module' = [gps_module EXCEPT !.pdme_inbox = << >>,
                                        !.lock = CondWait("worker")]
    /\ gps_manager' = [gps_manager EXCEPT !.turningOnPOSHOLD = FlagRise(@),
                                          !.pc = "poshold_ack"]
    /\ reissue' = [reissue EXCEPT !.POSHOLD = Issued]
    /\ UNCHANGED <<hostReady, ladderLog, traimAt, nMsgs, runVars>>

\* GPS_Manager._turnOnPOSHOLD after _wait_PDME_conf has returned; inside
\* _initializeGPS the worker goes on to _turnOnTRAIM
GM_holdPosDone ==
    /\ GM_at("poshold_ack")
    /\ gps_module.pdme_inbox # << >>
    /\ gps_module' = [gps_module EXCEPT !.POSHOLD_on = FlagRise(@),
                                        !.subs = @ \cup {"_checkPOSHOLD"},
                                        !.lock = "none"]
    /\ gps_manager' =
         IF gps_manager.task = "_initializeGPS"
         THEN [gps_manager EXCEPT !.turningOnPOSHOLD = FlagFall(@),
                                  !.pc = "_turnOnTRAIM"]
         ELSE GM_done([gps_manager EXCEPT !.turningOnPOSHOLD = FlagFall(@)])
    /\ UNCHANGED <<hostReady, sentLines, ladderLog, traimAt, reissue, nMsgs, runVars>>

\* GPS_Manager._turnOnTRAIM up to the wait inside enableTRAIM ($PDME,22)
GM_turnOnTRAIM ==
    /\ GM_at("_turnOnTRAIM")
    /\ sentLines' = Append(sentLines, PDME_line(PDME_TRAIM_CTRL))
    /\ gps_module' = [gps_module EXCEPT !.pdme_inbox = << >>,
                                        !.lock = CondWait("worker")]
    /\ gps_manager' = [gps_manager EXCEPT !.turningOnTRAIM = FlagRise(@),
                                          !.pc = "traim_ack"]
    /\ reissue' = [reissue EXCEPT !.TRAIM = Issued]
    /\ UNCHANGED <<hostReady, ladderLog, traimAt, nMsgs, runVars>>

\* GPS_Manager._turnOnTRAIM after _wait_PDME_conf has returned; this ends
\* _initializeGPS or the re-enabling task
GM_enableTRAIMDone ==
    /\ GM_at("traim_ack")
    /\ gps_module.pdme_inbox # << >>
    /\ gps_module' = [gps_module EXCEPT !.TRAIM_on = FlagRise(@),
                                        !.subs = @ \cup {"_checkTRAIM"},
                                        !.lock = "none"]
    /\ gps_manager' = GM_done([gps_manager EXCEPT !.turningOnTRAIM = FlagFall(@)])
    /\ UNCHANGED <<hostReady, sentLines, ladderLog, traimAt, reissue, nMsgs, runVars>>

\* GPS_Manager._monitorGPS: subscribe _check_nSats to GPGGA
GM_monitorGPS ==
    /\ GM_at("_monitorGPS")
    /\ gps_module' = [gps_module EXCEPT !.subs = @ \cup {"_check_nSats"}]
    /\ gps_manager' = GM_done(gps_manager)
    /\ UNCHANGED <<hostReady, sentLines, ladderLog, traimAt, reissue, nMsgs, runVars>>

\* every step of the GPS manager's worker thread
GpsManager ==
    \/ GM_Take
    \/ GM_queueStartupSequence
    \/ GM_waitHostReady
    \/ GM_setupTimeMonitoring
    \/ GM_initTimeIfNeeded
    \/ GM_initPosTimeDone
    \/ GM_ensureSats
    \/ GM_gotSats
    \/ GM_satsTimeout
    \/ GM_restartDone
    \/ GM_turnOnPOSHOLD
    \/ GM_holdPosDone
    \/ GM_turnOnTRAIM
    \/ GM_enableTRAIMDone
    \/ GM_monitorGPS

GpsNext ==
    \/ GpsReader /\ UNCHANGED gpsFrame
    \/ GpsManager /\ UNCHANGED gpsFrame

\* the same, with a GPS module that answers every command it is sent
AckGpsNext ==
    \/ GpsReader /\ UNCHANGED gpsFrame
    \/ GpsManager /\ UNCHANGED gpsFrame
    \/ PDME_Acknowledged /\ UNCHANGED gpsFrame

---------------------------------------------------------------------------
(* Command handler (commands.py), registry and node sessions (model.py),   *)
(* Wi-Fi module proxy (wifi.py).                                           *)

\* IP addresses, MAC addresses and wire names of bridge modes seen in commands
IPs == {"192.168.0.10", "192.168.0.11"}
MACs == {"aa:bb:cc:dd:ee:ff", "11:22:33:44:55:66"}
WireModes == {"NORMAL", "UART-ONLY", "NONE", "TREFOIL", "FLYOVER", "BOGUS"}

\* lines handed to WiFi_Module.sendHost by SensorHost.sendLine
HostLines == {"START\n"}

\* a field not assigned yet (Python None or a missing attribute)
None == "None"
NoTime == 0
NoServer == 0

\* the threads that may call into the registry
Threads == {1, 2}

\* SensorNet.__init__, and no command handled yet
CmdInit ==
    /\ nodes = << >>
    /\ nServers = 0
    /\ servers = << >>
    /\ nCmds = 0
    /\ lastCmd = [cmdName |-> None, nodeNum |-> 0, cmdArgs |-> << >>,
                  sender |-> None]
    /\ repeated = FALSE
    /\ lastSend = << >>
    /\ cmdLog = << >>
    /\ escaped = FALSE
    /\ nodeLogged = << >>

\* WiFi_Module.__init__
WiFi_Module(ip) ==
    [ipaddr |-> ip, macaddr |-> None, status |-> "UNSEEN",
     onAt |-> NoTime, lastSeen |-> NoTime, mainConn |-> NoServer,
     auxioServer |-> NoServer, uartServer |-> NoServer,
     bridge_mode |-> "UNKNOWN"]

\* SensorNode.__init__ (with its WiFi_Module and its untyped SensorHost)
SensorNode(ip) ==
    [ipaddr |-> ip, macaddr |-> None, status |-> "UNSEEN",
     onAt |-> NoTime, lastSeen |-> NoTime,
     wifi_module |-> WiFi_Module(ip),
     sensor_host |-> [sensorHostType |-> "UNKNOWN", starting |-> FALSE,
                      ready |-> FALSE, gpsCreated |-> 0]]

\* A plausible slip: the Wi-Fi module is not told about the new address.
reloc_NodeOnly(node, ip) == [node EXCEPT !.ipaddr = ip]

\* SensorNode.reloc: new IP address on the node and on its Wi-Fi module (isAt)
reloc(node, ip) ==
    [node EXCEPT !.ipaddr = ip, !.wifi_module.ipaddr = ip]

\* SensorNet.nodeAt: the registry after node id was seen at ip
nodeAt(ns, id, ip) ==
    IF id \in DOMAIN ns
    THEN IF ip = ns[id].ipaddr THEN ns ELSE [ns EXCEPT ![id] = reloc(@, ip)]
    ELSE [i \in DOMAIN ns \cup {id} |-> IF i = id THEN SensorNode(ip) ELSE ns[i]]

\* SensorNode.sawAt: last-seen time, and an AWOL node is back
sawAt(node, when) ==
    [node EXCEPT !.lastSeen = when,
                 !.status = IF @ = "ON_AWOL" THEN "ON"
                            ELSE IF @ = "RUNNING_AWOL" THEN "RUNNING" ELSE @]

\* A plausible slip: an unseen node that is heard from is not marked ON.
verifyNode_KeepsUnseen(ns, id, ip, when) ==
    LET ns1 == IF id \notin DOMAIN ns THEN nodeAt(ns, id, ip) ELSE ns
    IN [ns1 EXCEPT ![id] = sawAt(ns1[id], when)]

\* SensorNet.verifyNode: add an unknown node, mark an unseen one ON when the
\* sender's address matches, and record the sighting
verifyNode(ns, id, ip, when) ==
    LET ns1 == IF id \notin DOMAIN ns THEN nodeAt(ns, id, ip) ELSE ns
        n1 == ns1[id]
        n2 == IF n1.ipaddr # ip THEN n1
              ELSE IF n1.status = "UNSEEN" THEN [n1 EXCEPT !.status = "ON"]
              ELSE n1
    IN [ns1 EXCEPT ![id] = sawAt(n2, when)]

\* ports.LASER_PORT and ports.MESON_PORT: the base ports of the AUXIO and
\* UART bridge servers
LASER_PORT == 52737
MESON_PORT == 63766

\* A plausible slip: every server of a kind listens on the base port.
BridgeServer_BasePort(basePort, nodeID, name) ==
    [name |-> name, nodeID |-> nodeID, port |-> basePort]

\* BridgeServer.__init__
BridgeServer(basePort, nodeID, name) ==
    [name |-> name, nodeID |-> nodeID, port |-> basePort + nodeID]

\* WiFi_Module._setupAuxioServer, _setupUartServer: the BridgeServer objects
\* after Wi-Fi module w of node nodenum has got the servers it lacked
withNewServers(srv, w, nodenum) ==
    [k \in DOMAIN srv \cup ({w.auxioServer, w.uartServer} \ {NoServer}) |->
       IF k \in DOMAIN srv THEN srv[k]
       ELSE IF k = w.auxioServer THEN BridgeServer(LASER_PORT, nodenum, "auxio")
       ELSE BridgeServer(MESON_PORT, nodenum, "uart")]

\* A plausible slip: the UART bridge server is created on every power-on.
setupUartServer_Always(w, h) == [w EXCEPT !.uartServer = h]

\* WiFi_Module._setupUartServer: create and start the server only if none yet
setupUartServer(w, h) ==
    IF w.uartServer = NoServer THEN [w EXCEPT !.uartServer = h] ELSE w

\* A plausible slip: the AUXIO bridge server is created on every power-on.
setupAuxioServer_Always(w, h) == [w EXCEPT !.auxioServer = h]

\* WiFi_Module._setupAuxioServer: create and start the server only if none yet
setupAuxioServer(w, h) ==
    IF w.auxioServer = NoServer THEN [w EXCEPT !.auxioServer = h] ELSE w

\* WiFi_Module.turnedOnAt: status ON, timestamps, _setupBridgeServers; a new
\* server object is told apart from every earlier one by its serial number
turnedOnAt(w, when, k) ==
    LET w1 == [w EXCEPT !.status = "ON", !.onAt = when, !.lastSeen = when]
        w2 == setupAuxioServer(w1, k + 1)
    IN setupUartServer(w2, IF w2.auxioServer = k + 1 THEN k + 2 ELSE k + 1)

\* SensorNet.nodeOn: nodeAt, SensorNode.setMac (with hasMac), SensorNode.turnOn
nodeOn(ns, num, ip, mac, when, k) ==
    LET ns1 == nodeAt(ns, num, ip)
        n1 == [ns1[num] EXCEPT !.macaddr = mac, !.wifi_module.macaddr = mac]
        n2 == [n1 EXCEPT !.status = "ON", !.onAt = when, !.lastSeen = when,
                         !.wifi_module = turnedOnAt(@, when, k)]
    IN [ns1 EXCEPT ![num] = n2]

\* the number of bridge servers created between two states of a Wi-Fi module
newServers(w0, w1) ==
    (IF w1.auxioServer # w0.auxioServer THEN 1 ELSE 0)
      + (IF w1.uartServer # w0.uartServer THEN 1 ELSE 0)

\* SensorNet.nodeWithIP: the listed nodes that use the address
nodeWithIP(ns, ip) == {i \in DOMAIN ns : ns[i].ipaddr = ip}

\* the warning records of SensorNet.nodeAt
nodeAtLog(ns, id, ip) ==
    LET inUse == IF nodeWithIP(ns, ip) # {} THEN << "ip-in-use" >> ELSE << >>
    IN IF id \in DOMAIN ns
       THEN IF ip = ns[id].ipaddr THEN << >>
            ELSE << "new-ip", "dhcp-hint" >> \o inUse
       ELSE inUse

\* the warning records of SensorNet.verifyNode (three lines for an unknown
\* node, two for an address that differs, two for a node not yet seen on)
verifyNodeLog(ns, id, ip) ==
    LET unknown == id \notin DOMAIN ns
        ns1 == IF unknown THEN nodeAt(ns, id, ip) ELSE ns
    IN (IF unknown
        THEN << "unknown-node", "unknown-node-2", "unknown-node-3" >>
               \o nodeAtLog(ns, id, ip)
        ELSE << >>)
       \o (IF ns1[id].ipaddr # ip THEN << "ip-mismatch", "ip-on-file" >>
           ELSE IF ns1[id].status = "UNSEEN" THEN << "unseen", "unseen-2" >>
           ELSE << >>)

\* CommandHandler.process: one more command taken off the handler's worklist,
\* parsed into name, node number and the remaining arguments
CommandTaken(name, num, args, sender) ==
    LET cmd == [cmdName |-> name, nodeNum |-> num, cmdArgs |-> args,
                sender |-> sender]
    IN /\ nCmds < MaxCmds
       /\ nCmds' = nCmds + 1
       /\ lastCmd' = cmd
       /\ repeated' = (lastCmd = cmd)

\* CommandHandler.handleNodeOn; the message time is the command's number.  The
\* node reports the address it sends from.  With a wrong argument count the
\* error is logged and, if there is any argument, the listing loop's
\* "cmd = cmd + 1" raises, which process() catches and logs.
handleNodeOn(num, args) ==
    /\ CommandTaken("POWERED_ON", num, args, None)
    /\ IF Len(args) # 2
       THEN /\ UNCHANGED <<nodes, nServers, servers>>
            /\ cmdLog' = << "argcount" >>
                 \o (IF Len(args) >= 1 THEN << "exception" >> ELSE << >>)
       ELSE /\ nodes' = nodeOn(nodes, num, args[1], args[2], nCmds + 1, nServers)
            /\ nServers' = nServers
                 + newServers(nodeAt(nodes, num, args[1])[num].wifi_module,
                              nodes'[num].wifi_module)
            /\ servers' = withNewServers(servers, nodes'[num].wifi_module, num)
            /\ cmdLog' = nodeAtLog(nodes, num, args[1])
    /\ escaped' = FALSE
    /\ nodeLogged' = << >>
    /\ UNCHANGED lastSend

\* int(arg_depth) for the depths that arrive; BadInt when int() raises
BadInt == -1
IntOf(word) ==
    CASE word = "0" -> 0 [] word = "1" -> 1 [] word = "2" -> 2 [] OTHER -> BadInt

\* "  " * arg_depth
RECURSIVE Indent(_)
Indent(depth) == IF depth <= 0 THEN "" ELSE "  " \o Indent(depth - 1)

\* " ".join(words)
RECURSIVE Join(_)
Join(words) ==
    IF words = << >> THEN ""
    ELSE IF Len(words) = 1 THEN words[1]
    ELSE words[1] \o " " \o Join(Tail(words))

\* A plausible slip: one space for each level of depth.
logText_OneSpace(num, depth, words) ==
    "Node " \o ToString(num) \o ": " \o SubSeq("    ", 1, depth) \o Join(words)

\* CommandHandler.handleLogMsg: the text given to the node's logger
logText(num, depth, words) ==
    "Node " \o ToString(num) \o ": " \o Indent(depth) \o Join(words)

\* CommandHandler.handleLogMsg: the entry logged for the node, if any
logEntry(ns, num, args) ==
    IF num \in DOMAIN ns
    THEN << [node |-> num,
             text |-> logText(num, IntOf(args[2]), SubSeq(args, 3, Len(args)))] >>
    ELSE << >>

\* A plausible slip: the sender is verified before the arguments are counted.
handleLogMsg_VerifyFirst(num, args, sender) ==
    /\ CommandTaken("LOGMSG", num, args, sender)
    /\ nodes' = verifyNode(nodes, num, sender, nCmds + 1)
    /\ cmdLog' = (IF Len(args) < 3 THEN << "argcount" >> ELSE << >>)
                   \o verifyNodeLog(nodes, num, sender)
    /\ nodeLogged' = IF Len(args) < 3 \/ IntOf(args[2]) = BadInt THEN << >>
                     ELSE logEntry(nodes', num, args)
    /\ escaped' = FALSE
    /\ UNCHANGED <<nServers, servers, lastSend>>

\* CommandHandler.handleLogMsg: with a depth that is not a number int() raises
\* before the node is verified, which process() catches and logs
handleLogMsg(num, args, sender) ==
    /\ CommandTaken("LOGMSG", num, args, sender)
    /\ IF Len(args) < 3
       THEN UNCHANGED nodes /\ cmdLog' = << "argcount" >> /\ nodeLogged' = << >>
       ELSE IF args[1] = "(unset)"
       THEN UNCHANGED nodes /\ cmdLog' = << "unset-id" >> /\ nodeLogged' = << >>
       ELSE IF IntOf(args[2]) = BadInt
       THEN UNCHANGED nodes /\ cmdLog' = << "exception" >> /\ nodeLogged' = << >>
       ELSE /\ nodes' = verifyNode(nodes, num, sender, nCmds + 1)
            /\ cmdLog' = verifyNodeLog(nodes, num, sender)
            /\ nodeLogged' = logEntry(nodes', num, args)
    /\ escaped' = FALSE
    /\ UNCHANGED <<nServers, servers, lastSend>>

\* CommandHandler.handleHeartbeat
handleHeartbeat(num, args, sender) ==
    /\ CommandTaken("HEARTBEAT", num, args, sender)
    /\ IF Len(args) # 1
       THEN UNCHANGED nodes /\ cmdLog' = << "argcount" >>
       ELSE /\ nodes' = verifyNode(nodes, num, sender, nCmds + 1)
            /\ cmdLog' = verifyNodeLog(nodes, num, sender)
    /\ escaped' = FALSE
    /\ nodeLogged' = << >>
    /\ UNCHANGED <<nServers, servers, lastSend>>

\* CommandHandler.handleBridgeMode: a wrong argument count is logged and the
\* handler goes on; with no argument cmdArgs[0] raises, which process() catches
\* and logs; otherwise the node is verified and bridgeMode_is is given
\* arg_bmstr (model_bm is not used)
handleBridgeMode(num, args, sender) ==
    /\ CommandTaken("BRIDGE_MODE", num, args, sender)
    /\ IF Len(args) = 0
       THEN UNCHANGED nodes /\ cmdLog' = << "argcount", "exception" >>
       ELSE /\ nodes' = [verifyNode(nodes, num, sender, nCmds + 1)
                           EXCEPT ![num].wifi_module.bridge_mode = args[1]]
            /\ cmdLog' = (IF Len(args) # 1 THEN << "argcount" >> ELSE << >>)
                           \o verifyNodeLog(nodes, num, sender)
    /\ escaped' = FALSE
    /\ nodeLogged' = << >>
    /\ UNCHANGED <<nServers, servers, lastSend>>

\* the command words dispatch_command knows but does not implement
Unimplemented ==
    {"PONG", "FEDM_POWERUP", "FEDM_HEARTBEAT", "1ST_SYNC", "PULSE_DATA",
     "MISSING_SYNCS", "CALIBRATE_TIMING"}

\* CommandHandler.dispatch_command for a word without a handler: a warning
\* for an unimplemented command, an error for an unknown one
dispatch_other(name, num, args) ==
    /\ CommandTaken(name, num, args, None)
    /\ cmdLog' = IF name \in Unimplemented THEN << "not-implemented" >>
                 ELSE << "unknown-command" >>
    /\ escaped' = FALSE
    /\ nodeLogged' = << >>
    /\ UNCHANGED <<nodes, nServers, servers, lastSend>>

\* CommandHandler.process when parseNodeNum finds no node number or one that
\* is not an integer: it logs an error and returns None, and formatting the
\* title of the connection's terminal with "%d" % None raises TypeError before
\* the try block.  Every main-server connection has a terminal.
parseNodeNum_fails(name, args) ==
    /\ CommandTaken(name, NoNode, args, None)
    /\ cmdLog' = << "nodenum" >>
    /\ escaped' = TRUE
    /\ nodeLogged' = << >>
    /\ UNCHANGED <<nodes, nServers, servers, lastSend>>

\* WiFi_Module._uartSrvConnected, _auxioSrvConnected, _mainSrvConnected
uartSrvConnected(w) == w.uartServer # NoServer
auxioSrvConnected(w) == w.auxioServer # NoServer
mainSrvConnected(w) == w.mainConn # NoServer

\* WiFi_Module.sendTo_uartSrv, sendTo_auxioSrv, sendTo_mainSrv: what goes out
sendTo_uartSrv(w, line) ==
    IF ~uartSrvConnected(w) THEN << >> ELSE << [via |-> "uart", line |-> line] >>
sendTo_auxioSrv(w, line) ==
    IF ~auxioSrvConnected(w) THEN << >> ELSE << [via |-> "auxio", line |-> line] >>
sendTo_mainSrv(w, line) ==
    IF ~mainSrvConnected(w) THEN << >> ELSE << [via |-> "main", line |-> line] >>

\* A plausible slip: the AUXIO server is preferred whatever the bridge mode.
sendScript_AuxioFirst(w, line) ==
    IF auxioSrvConnected(w) THEN sendTo_auxioSrv(w, line)
    ELSE IF w.bridge_mode = "TREFOIL" /\ uartSrvConnected(w)
    THEN sendTo_uartSrv(w, line)
    ELSE IF mainSrvConnected(w) THEN sendTo_mainSrv(w, line)
    ELSE << >>

\* A plausible slip: the main connection is preferred to the AUXIO server.
sendScript_MainFirst(w, line) ==
    IF w.bridge_mode = "TREFOIL" /\ uartSrvConnected(w)
    THEN sendTo_uartSrv(w, line)
    ELSE IF mainSrvConnected(w) THEN sendTo_mainSrv(w, line)
    ELSE IF auxioSrvConnected(w) THEN sendTo_auxioSrv(w, line)
    ELSE << >>

\* WiFi_Module.sendScript
sendScript(w, line) ==
    IF w.bridge_mode = "TREFOIL" /\ uartSrvConnected(w)
    THEN sendTo_uartSrv(w, line)
    ELSE IF auxioSrvConnected(w) THEN sendTo_auxioSrv(w, line)
    ELSE IF mainSrvConnected(w) THEN sendTo_mainSrv(w, line)
    ELSE << >>

\* WiFi_Module.sendHost
sendHost(w, line) ==
    IF w.bridge_mode \in {"UART", "FLYOVER"} /\ uartSrvConnected(w)
    THEN sendTo_uartSrv(w, line)
    ELSE IF w.bridge_mode \in {"DEFAULT", "TREFOIL", "NONE"}
    THEN sendScript(w, "HOST " \o line)
    ELSE << >>

\* SensorHost.sendLine -> WiFi_Module.sendHost for a node of the registry
SendHost(num, line) ==
    /\ num \in DOMAIN nodes
    /\ lastSend' = << [nodeNum |-> num, line |-> line,
                       bridge_mode |-> nodes[num].wifi_module.bridge_mode,
                       uart |-> uartSrvConnected(nodes[num].wifi_module),
                       out |-> sendHost(nodes[num].wifi_module, line)] >>
    /\ UNCHANGED <<nodes, nServers, servers, nCmds, lastCmd, repeated, cmdLog, escaped,
                   nodeLogged>>

\* the argument lists (after the node number) that commands arrive with
OnArgs == {<<ip, mac>> : ip \in IPs, mac \in MACs} \cup {<< >>, <<"192.168.0.10">>}
HeartbeatArgs == {<<"7">>, << >>}
BridgeModeArgs == {<<w>> : w \in WireModes} \cup {<< >>, <<"TREFOIL", "x">>}
LogMsgArgs ==
    {<<"INFO", "0", "hello">>, <<"INFO", "0">>, <<"(unset)", "0", "hello">>,
     <<"INFO", "2", "hello", "world">>, <<"INFO", "x", "hello">>}

\* the words after the command word when the node number is missing or wrong
BadIdArgs == {<< >>, <<"x">>}

\* every command the handler can be given, and every send to a node's host
CmdNext ==
    \/ \E num \in NodeIds, args \in OnArgs :
         handleNodeOn(num, args) /\ UNCHANGED cmdFrame
    \/ \E num \in NodeIds, args \in LogMsgArgs, sender \in IPs :
         handleLogMsg(num, args, sender) /\ UNCHANGED cmdFrame
    \/ \E num \in NodeIds, args \in HeartbeatArgs, sender \in IPs :
         handleHeartbeat(num, args, sender) /\ UNCHANGED cmdFrame
    \/ \E num \in NodeIds, args \in BridgeModeArgs, sender \in IPs :
         handleBridgeMode(num, args, sender) /\ UNCHANGED cmdFrame
    \/ \E name \in {"PONG", "FROB"}, num \in NodeIds :
         dispatch_other(name, num, << >>) /\ UNCHANGED cmdFrame
    \/ \E name \in {"POWERED_ON", "LOGMSG", "HEARTBEAT", "BRIDGE_MODE"},
          args \in BadIdArgs :
         parseNodeNum_fails(name, args) /\ UNCHANGED cmdFrame
    \/ \E num \in NodeIds, line \in HostLines :
         SendHost(num, line) /\ UNCHANGED cmdFrame

\* SensorNet.__init__ (the lock is free) and no thread inside nodeAt
NatInit ==
    /\ nat = [t \in Threads |-> [pc |-> "idle", id |-> 0, ip |-> None]]
    /\ writeLock = 0
    /\ created = [id \in NodeIds |-> 0]


---------------------------------------------------------------------------
(* publisher.py: a Publisher, threads that subscribe, one that publishes.  *)

Titles == {"Spider-Man", "She-Hulk"}
Addresses == {"fanboy", "fangirl"}
ALL == "__ALL__"

\* Publisher.__init__, and no publish() under way
PubInit ==
    /\ subscriptions = << >>
    /\ subLog = << >>
    /\ pub = [pc |-> "idle", title |-> None, todo |-> << >>, calls |-> << >>,
              subsBefore |-> << >>]

\* Publisher.hasTitle: an empty list for a title not seen before
hasTitle(subs, title) ==
    IF title \in DOMAIN subs THEN subs
    ELSE [t \in DOMAIN subs \cup {title} |->
            IF t = title THEN << >> ELSE subs[t]]

\* A plausible slip: the newest subscriber is put first.
subscribed_Prepend(subs, address, title) ==
    [hasTitle(subs, title) EXCEPT ![title] = << address >> \o @]

\* Publisher.subscribe: the dictionary after address subscribed to title
subscribed(subs, address, title) ==
    [hasTitle(subs, title) EXCEPT ![title] = @ \o << address >>]

\* Publisher.subscribe, called by any thread (it holds the lock throughout)
subscribe(address, title) ==
    /\ Len(subLog) < MaxSubs
    /\ subscriptions' = subscribed(subscriptions, address, title)
    /\ subLog' = Append(subLog, [address |-> address, title |-> title])
    /\ UNCHANGED pub

\* Publisher.subscribeAll
subscribeAll(address) == subscribe(address, ALL)

\* A plausible slip: the wildcard subscribers are served first.
recipients_AllFirst(subs, title) == subs[ALL] \o subs[title]

\* Publisher.publish: the list the for loop iterates over
recipients(subs, title) == subs[title] \o subs[ALL]

\* Publisher.publish up to the start of its loop
publish(title) ==
    /\ pub.pc # "delivering"
    /\ subscriptions' = hasTitle(hasTitle(subscriptions, title), ALL)
    /\ pub' = [pc |-> "delivering", title |-> title,
               todo |-> recipients(subscriptions', title), calls |-> << >>,
               subsBefore |-> subLog]
    /\ UNCHANGED subLog

\* Publisher.deliver for the next address of the loop: the callable is called
\* in the publishing thread; if it raises, the exception leaves deliver() and
\* publish(), nothing catching it
deliver(ok) ==
    /\ pub.pc = "delivering"
    /\ pub.todo # << >>
    /\ pub' = [pub EXCEPT !.calls = Append(@, Head(pub.todo)),
                          !.todo = IF ok THEN Tail(@) ELSE @,
                          !.pc = IF ok THEN @ ELSE "raised"]
    /\ UNCHANGED <<subscriptions, subLog>>

\* the loop of publish() is over: publish returns
publish_returns ==
    /\ pub.pc = "delivering"
    /\ pub.todo = << >>
    /\ pub' = [pub EXCEPT !.pc = "returned"]
    /\ UNCHANGED <<subscriptions, subLog>>
---------------------------------------------------------------------------
(* nmea.py.  A string is a sequence of character codes; encode() turns it  *)
(* into UTF-8 bytes.                                                       *)

\* the characters strings are made of: G , 1 $ * and e-acute
NmeaChars == {71, 44, 49, 36, 42, 233}

\* getCRC's results besides a checksum: None, and int() raising ValueError
NoCRC == -1
BadHex == -2

\* the characters str.strip() removes (code points below 256)
WhiteSpace == {9, 10, 11, 12, 13, 28, 29, 30, 31, 32, 133, 160}

\* str.strip()
RECURSIVE Strip(_)
Strip(str) ==
    IF str = << >> THEN str
    ELSE IF str[1] \in WhiteSpace THEN Strip(Tail(str))
    ELSE IF str[Len(str)] \in WhiteSpace THEN Strip(SubSeq(str, 1, Len(str) - 1))
    ELSE str

\* str.split(','): the fields between the commas
RECURSIVE Split(_)
Split(str) ==
    IF \A i \in DOMAIN str : str[i] # 44 THEN << str >>
    ELSE LET k == CHOOSE i \in DOMAIN str :
                    str[i] = 44 /\ \A j \in 1 .. (i - 1) : str[j] # 44
         IN << SubSeq(str, 1, k - 1) >> \o Split(SubSeq(str, k + 1, Len(str)))

\* what _parseMsg has not been given yet
NotParsed == [exc |-> None, ret |-> None, words |-> << >>, log |-> << >>]

\* no string taken yet
NmeaInit ==
    nmea = [pc |-> "idle", line |-> << >>, withCRC |-> FALSE, sent |-> << >>,
            flipped |-> FALSE, out |-> [exc |-> None, line |-> << >>],
            parsed |-> NotParsed]

\* str.encode() of one character (UTF-8, one or two bytes)
Encode(c) == IF c < 128 THEN << c >> ELSE << 192 + (c \div 64), 128 + (c % 64) >>

\* the ^ of two bytes
RECURSIVE Xor(_, _)
Xor(a, b) ==
    IF a = 0 /\ b = 0 THEN 0
    ELSE (((a % 2) + (b % 2)) % 2) + 2 * Xor(a \div 2, b \div 2)

\* calcCRC: the XOR of the bytes of the encoded string
RECURSIVE calcCRC(_)
calcCRC(bareStr) ==
    IF bareStr = << >> THEN 0
    ELSE LET codes == Encode(bareStr[Len(bareStr)])
             rest == calcCRC(SubSeq(bareStr, 1, Len(bareStr) - 1))
         IN IF Len(codes) = 1 THEN Xor(rest, codes[1])
            ELSE Xor(Xor(rest, codes[1]), codes[2])

\* one hexadecimal digit of "%x", as a character
HexDigit(n) == IF n < 10 THEN 48 + n ELSE 87 + n

\* the value int(.., 16) gives a hexadecimal digit character, BadHex otherwise
HexVal(c) ==
    IF c >= 48 /\ c <= 57 THEN c - 48
    ELSE IF c >= 97 /\ c <= 102 THEN c - 87
    ELSE IF c >= 65 /\ c <= 70 THEN c - 55
    ELSE BadHex

\* int(last2, 16) of a two-character string: two digits, or one digit with
\* white space before or after it, which int() strips; anything else raises
\* (a sign does not arise from the strings considered here)
IntBase16(c1, c2) ==
    LET hi == HexVal(c1)
        lo == HexVal(c2)
        space == {9, 10, 11, 12, 13, 28, 29, 30, 31, 32}
    IN IF hi # BadHex /\ lo # BadHex THEN 16 * hi + lo
       ELSE IF c1 \in space /\ lo # BadHex THEN lo
       ELSE IF hi # BadHex /\ c2 \in space THEN hi
       ELSE BadHex

\* A plausible slip: "*%x", without the padding to two digits.
FormatCRC_NoPad(crcNum) ==
    IF crcNum < 16 THEN << 42, HexDigit(crcNum) >>
    ELSE << 42, HexDigit(crcNum \div 16), HexDigit(crcNum % 16) >>

\* "*%02x" % crcNum, for a checksum below 256
FormatCRC(crcNum) == << 42, HexDigit(crcNum \div 16), HexDigit(crcNum % 16) >>

\* isNMEA
isNMEA(line) == line # << >> /\ line[1] = 36

\* getCRC
getCRC(sent) ==
    IF Len(sent) < 3 THEN NoCRC
    ELSE IF sent[Len(sent) - 2] # 42 THEN NoCRC
    ELSE IntBase16(sent[Len(sent) - 1], sent[Len(sent)])

\* stripNMEA: the bare line, or the exception raised
stripNMEA(line) ==
    IF ~isNMEA(line) THEN [exc |-> None, line |-> line]
    ELSE LET l1 == Tail(line)
             crc == getCRC(l1)
             bare == SubSeq(l1, 1, Len(l1) - 3)
         IN IF crc = BadHex THEN [exc |-> "ValueError", line |-> << >>]
            ELSE IF crc = NoCRC THEN [exc |-> None, line |-> l1]
            ELSE IF calcCRC(bare) # crc
            THEN [exc |-> "BadChecksum", line |-> << >>]
            ELSE [exc |-> None, line |-> bare]

\* SensorHost._parseMsg: what it raises or returns (None or the words) and
\* the error and warning records it logs; only BadChecksum is caught (the
\* strings considered here are too short to begin with PDMEHEADER or
\* CON_PULSE)
parseMsg(data) ==
    LET msgStr == Strip(data)
        bare == stripNMEA(msgStr)
    IN IF msgStr = << >>
       THEN [exc |-> None, ret |-> None, words |-> << >>, log |-> << >>]
       ELSE IF bare.exc = "BadChecksum"
       THEN [exc |-> None, ret |-> None, words |-> << >>,
             log |-> << "checksum" >>]
       ELSE IF bare.exc # None
       THEN [exc |-> bare.exc, ret |-> None, words |-> << >>, log |-> << >>]
       ELSE IF bare.line = << >>
       THEN [exc |-> None, ret |-> None, words |-> << >>, log |-> << "empty" >>]
       ELSE [exc |-> None, ret |-> "words", words |-> Split(bare.line),
             log |-> << >>]

\* makeNMEA
makeNMEA(line, makeChecksum) ==
    << 36 >> \o (IF makeChecksum THEN line \o FormatCRC(calcCRC(line)) ELSE line)

\* every string of at most n characters
RECURSIVE NmeaStrings(_)
NmeaStrings(n) ==
    IF n = 0 THEN {<< >>}
    ELSE LET shorter == NmeaStrings(n - 1)
         IN shorter \cup {Append(s, c) : s \in shorter, c \in NmeaChars}

\* a string is handed to makeNMEA, and the sentence to stripNMEA
NmeaTake(s) ==
    /\ nmea.pc = "idle"
    /\ nmea' = [pc |-> "taken", line |-> s, withCRC |-> FALSE, sent |-> << >>,
                flipped |-> FALSE, out |-> [exc |-> None, line |-> << >>],
                parsed |-> NotParsed]

NmeaMake(makeChecksum) ==
    /\ nmea.pc = "taken"
    /\ nmea' = [nmea EXCEPT !.pc = "made", !.withCRC = makeChecksum,
                            !.sent = makeNMEA(nmea.line, makeChecksum)]

\* one bit of one of the two checksum characters is flipped on the way
NmeaFlip(pos, bit) ==
    /\ nmea.pc = "made"
    /\ nmea.withCRC
    /\ ~nmea.flipped
    /\ nmea' = [nmea EXCEPT !.flipped = TRUE,
                            !.sent[Len(nmea.sent) - pos] = Xor(@, 2 ^ bit)]

\* the sentence arrives as a host line: stripNMEA, and SensorHost._parseMsg
NmeaStrip ==
    /\ nmea.pc = "made"
    /\ nmea' = [nmea EXCEPT !.pc = "stripped", !.out = stripNMEA(nmea.sent),
                            !.parsed = parseMsg(nmea.sent)]

---------------------------------------------------------------------------
(* COSMICi_server.py: threads inside the GPS-time setters of CosmicIServer. *)

\* no thread is inside yo_GPS_time_is_good or yo_GPS_time_is_nogood
YoInit == yo = [t \in Threads |-> "idle"]

\* CosmicIServer.yo_GPS_time_is_good, "if not inst.gps_time_good": thread t
\* goes on if the boolean is False, and returns if it is True
yo_GPS_time_is_good_test(t) ==
    /\ yo[t] = "idle"
    /\ nCalls < MaxCalls
    /\ nCalls' = nCalls + 1
    /\ yo' = [yo EXCEPT ![t] = IF ~gps_time_good THEN "good_assign" ELSE "idle"]
    /\ UNCHANGED <<ctu_ready, fedm_ready, good_time, ctu_node, gps_time_good,
                   worklist, runTask, taskLog, startSent, everUp, reraised>>

\* CosmicIServer.yo_GPS_time_is_good, "inst.gps_time_good = True"
yo_GPS_time_is_good_assign(t) ==
    /\ yo[t] = "good_assign"
    /\ gps_time_good' = TRUE
    /\ yo' = [yo EXCEPT ![t] = "good_forward"]
    /\ UNCHANGED <<ctu_ready, fedm_ready, good_time, ctu_node, worklist,
                   runTask, taskLog, startSent, everUp, nCalls, reraised>>

\* CosmicIServer.yo_GPS_time_is_good, "inst.runmgr.yo_GPS_time_is_good()"
yo_GPS_time_is_good_forward(t) ==
    /\ yo[t] = "good_forward"
    /\ RM_yo_GPS_time_is_good
    /\ yo' = [yo EXCEPT ![t] = "idle"]
    /\ UNCHANGED <<ctu_ready, fedm_ready, ctu_node, gps_time_good, worklist,
                   runTask, taskLog, startSent, nCalls>>

\* CosmicIServer.yo_GPS_time_is_nogood, "if inst.gps_time_good": thread t
\* goes on if the boolean is True, and returns if it is False
yo_GPS_time_is_nogood_test(t) ==
    /\ yo[t] = "idle"
    /\ nCalls < MaxCalls
    /\ nCalls' = nCalls + 1
    /\ yo' = [yo EXCEPT ![t] = IF gps_time_good THEN "nogood_assign" ELSE "idle"]
    /\ UNCHANGED <<ctu_ready, fedm_ready, good_time, ctu_node, gps_time_good,
                   worklist, runTask, taskLog, startSent, everUp, reraised>>

\* CosmicIServer.yo_GPS_time_is_nogood, "inst.gps_time_good = False"
yo_GPS_time_is_nogood_assign(t) ==
    /\ yo[t] = "nogood_assign"
    /\ gps_time_good' = FALSE
    /\ yo' = [yo EXCEPT ![t] = "nogood_forward"]
    /\ UNCHANGED <<ctu_ready, fedm_ready, good_time, ctu_node, worklist,
                   runTask, taskLog, startSent, everUp, nCalls, reraised>>

\* CosmicIServer.yo_GPS_time_is_nogood, "inst.runmgr.yo_GPS_time_is_nogood()"
yo_GPS_time_is_nogood_forward(t) ==
    /\ yo[t] = "nogood_forward"
    /\ RM_yo_GPS_time_is_nogood
    /\ yo' = [yo EXCEPT ![t] = "idle"]
    /\ UNCHANGED <<ctu_ready, fedm_ready, ctu_node, gps_time_good, worklist,
                   runTask, taskLog, startSent, nCalls>>

\* threads that report the state of the GPS time, statement by statement
YoNext ==
    \/ \E t \in Threads : yo_GPS_time_is_good_test(t) /\ UNCHANGED yoFrame
    \/ \E t \in Threads : yo_GPS_time_is_good_assign(t) /\ UNCHANGED yoFrame
    \/ \E t \in Threads : yo_GPS_time_is_good_forward(t) /\ UNCHANGED yoFrame
    \/ \E t \in Threads : yo_GPS_time_is_nogood_test(t) /\ UNCHANGED yoFrame
    \/ \E t \in Threads : yo_GPS_time_is_nogood_assign(t) /\ UNCHANGED yoFrame
    \/ \E t \in Threads : yo_GPS_time_is_nogood_forward(t) /\ UNCHANGED yoFrame

Init == RunInit /\ GpsInit /\ CmdInit /\ NatInit /\ PubInit /\ NmeaInit /\ YoInit

YoSpec == Init /\ [][YoNext]_vars

RunSpec == Init /\ [][RunNext]_vars

\* The worker thread is a dedicated thread: it runs whenever it can.
FairRunSpec == RunSpec /\ WF_vars(RunWorker /\ UNCHANGED runFrame)

GpsSpec == Init /\ [][GpsNext]_vars

\* The state once the startup sequence of the GPS manager has run without
\* incident: HOST_READY, a GPRMC with the right time, a GPGGA with one
\* satellite and the acknowledgements of $PDME,21 and $PDME,22 have been
\* handled, _initializeGPS and _monitorGPS have returned.
Monitoring ==
    /\ hostReady = TRUE
    /\ gps_module = [resetting |-> FALSE, TRAIM_on |-> TRUE,
                     POSHOLD_on |-> TRUE, nSats |-> 1, gotSats |-> TRUE,
                     subs |-> {"_checkTime", "_checkPOSHOLD", "_checkTRAIM",
                               "_check_nSats"},
                     gprmc_inbox |-> << 0 >>,
                     pdme_inbox |-> << [cmdCode |-> PDME_TRAIM_CTRL,
                                        ok |-> "OK"] >>,
                     lock |-> "none"]
    /\ gps_manager = [badTime |-> FALSE, turningOnTRAIM |-> FALSE,
                      turningOnPOSHOLD |-> FALSE, worklist |-> << >>,
                      task |-> "idle", pc |-> "idle", ret |-> "_ensureSats",
                      rung |-> 0]
    /\ sentLines = << "UNMUTE", PDME_line(PDME_POSHOLD_CTRL),
                      PDME_line(PDME_TRAIM_CTRL) >>
    /\ ladderLog = << >>
    /\ traimAt = << >>
    /\ reissue = [m \in {"TRAIM", "POSHOLD"} |->
                    [owed |-> FALSE, due |-> FALSE]]
    /\ nMsgs = 5
    /\ ctu_ready = TRUE
    /\ fedm_ready = FALSE
    /\ good_time = FALSE
    /\ ctu_node = 0
    /\ gps_time_good = FALSE
    /\ worklist = << "_queueStartupSequence" >>
    /\ runTask = "idle"
    /\ taskLog = << >>
    /\ startSent = 0
    /\ everUp = [f \in {"ctu", "fedm", "time"} |-> f = "ctu"]
    /\ nCalls = 0
    /\ reraised = {}

MonitoringInit == Monitoring /\ CmdInit /\ NatInit /\ PubInit /\ NmeaInit /\ YoInit

\* From there on: the manager's worker thread is scheduled fairly and the GPS
\* module acknowledges the commands it is sent.
FairGpsSpec ==
    /\ MonitoringInit
    /\ [][AckGpsNext]_vars
    /\ WF_vars(GpsManager /\ UNCHANGED gpsFrame)
    /\ WF_vars(PDME_Acknowledged /\ UNCHANGED gpsFrame)


\* The manager's worker thread is scheduled fairly; nothing is assumed of the
\* GPS module, which may leave a command without reply.
FairWorkerGpsSpec ==
    /\ Init
    /\ [][GpsNext]_vars
    /\ WF_vars(GpsManager /\ UNCHANGED gpsFrame)

---------------------------------------------------------------------------
(* The CTU's HOST_READY handler taken statement by statement, next to the  *)
(* RunManager's worker: the reader thread and the worker are two threads.  *)

\* SensorHost._handleHostReady, called first by CTU_Host._handleHostReady:
\* starting.fall(), ready.rise()
HandleHostReady_ready ==
    /\ ReaderTakes
    /\ ~hostReady
    /\ hostReady' = FlagRise(hostReady)
    /\ UNCHANGED <<gps_module, gps_manager, sentLines, ladderLog, traimAt,
                   reissue, runVars>>

\* CTU_Host._handleHostReady, second statement: this.sendLine("UNMUTE")
HandleHostReady_UNMUTE ==
    /\ FlagBool(hostReady)
    /\ \A i \in 1..Len(sentLines) : sentLines[i] # "UNMUTE"
    /\ sentLines' = Append(sentLines, "UNMUTE")
    /\ UNCHANGED <<hostReady, gps_module, gps_manager, ladderLog, traimAt,
                   reissue, nMsgs, runVars>>

\* A plausible slip: the server is told that the CTU is ready before UNMUTE
\* has been sent.
HandleHostReady_yo_BeforeUNMUTE(n) ==
    /\ FlagBool(hostReady)
    /\ ctu_node = NoNode
    /\ RM_yo_CTU_is_ready(n)
    /\ UNCHANGED <<gpsVars, fedm_ready, good_time, gps_time_good, worklist,
                   runTask, taskLog, startSent, nCalls>>

\* CTU_Host._handleHostReady, last statement: cis.yo_CTU_is_ready(this.node),
\* which hands the node to RunManager.yo_CTU_is_ready
HandleHostReady_yo(n) ==
    /\ \E i \in 1..Len(sentLines) : sentLines[i] = "UNMUTE"
    /\ ctu_node = NoNode
    /\ RM_yo_CTU_is_ready(n)
    /\ UNCHANGED <<gpsVars, fedm_ready, good_time, gps_time_good, worklist,
                   runTask, taskLog, startSent, nCalls>>

\* RunManager._start_CTU with what it calls: CTU_Node.start() relays to
\* CTU_Host.start(), which does this.sendLine("START")
CTU_Host_start ==
    /\ RM_start_CTU
    /\ sentLines' = Append(sentLines, "START")
    /\ UNCHANGED <<hostReady, gps_module, gps_manager, ladderLog, traimAt,
                   reissue, nMsgs>>

\* the steps of the RunManager's worker before _start_CTU
RunWaits ==
    \/ WorkerTake
    \/ RM_queueStartupSequence
    \/ RM_wait_CTU_ready
    \/ RM_wait_FEDM_ready
    \/ RM_wait_good_time
    \/ RM_startTimekeeper
    \/ RM_startDataCollector

StartNext ==
    \/ HandleHostReady_ready /\ UNCHANGED gpsFrame
    \/ HandleHostReady_UNMUTE /\ UNCHANGED gpsFrame
    \/ (\E n \in {0} : HandleHostReady_yo(n)) /\ UNCHANGED gpsFrame
    \/ RunWaits /\ UNCHANGED runFrame
    \/ CTU_Host_start /\ UNCHANGED gpsFrame
    \/ (\E n \in NodeIds : yo_FEDM_is_ready(n)) /\ UNCHANGED runFrame
    \/ yo_GPS_time_is_good /\ UNCHANGED runFrame
    \/ yo_GPS_time_is_nogood /\ UNCHANGED runFrame

\* the CTU host's HOST_READY, the FEDM and the GPS time reports, and the worker
StartSpec == Init /\ [][StartNext]_vars

CmdSpec == Init /\ [][CmdNext]_vars

---------------------------------------------------------------------------
(* WiFi_Module.sendHost as a function of the module's fields: the module   *)
(* starts in any combination of bridge mode and open connections, and      *)
(* lines are sent to its host.                                             *)

\* the values .bridge_mode can hold: the module's own names and wire names
BridgeModes ==
    {"UNKNOWN", "DEFAULT", "UART", "TREFOIL", "NONE", "FLYOVER", "UNSUPPORTED",
     "NORMAL", "UART-ONLY"}

\* the module starts as a powered-on node's, with any mode and connections
SendInit ==
    /\ RunInit /\ GpsInit /\ NatInit /\ PubInit /\ NmeaInit /\ YoInit
    /\ \E bm \in BridgeModes, auxio \in {NoServer, 1}, uart \in {NoServer, 2},
          main \in {NoServer, 3} :
         nodes = [i \in {1} |->
                    [SensorNode("192.168.0.10") EXCEPT
                        !.status = "ON", !.wifi_module.status = "ON",
                        !.wifi_module.bridge_mode = bm,
                        !.wifi_module.auxioServer = auxio,
                        !.wifi_module.uartServer = uart,
                        !.wifi_module.mainConn = main]]
    /\ nServers = 3
    /\ servers = [k \in {nodes[1].wifi_module.auxioServer,
                          nodes[1].wifi_module.uartServer} \ {NoServer} |->
                    IF k = 1 THEN BridgeServer(LASER_PORT, 1, "auxio")
                    ELSE BridgeServer(MESON_PORT, 1, "uart")]
    /\ nCmds = 0
    /\ lastCmd = [cmdName |-> None, nodeNum |-> 0, cmdArgs |-> << >>,
                  sender |-> None]
    /\ repeated = FALSE
    /\ lastSend = << >>
    /\ cmdLog = << >>
    /\ escaped = FALSE
    /\ nodeLogged = << >>

\* the lines sent are those of CTU_Host.start and SensorHost.unmute
SendNext ==
    \E line \in {"START\n", "UNMUTE\n"} :
       SendHost(1, line) /\ UNCHANGED cmdFrame

SendSpec == SendInit /\ [][SendNext]_vars

---------------------------------------------------------------------------
(* The host of a powered-on node announces itself (HOST_STARTING) while    *)
(* lines are sent to it.                                                   *)

\* the largest number of GPS proxies counted for one node
MaxGps == 2

\* CTU_Host._convertFrom: creates node.gps_module (GPS_Module) and
\* node.gps_manager (GPS_Manager, a worker) anew; gpsCreated counts the pairs
\* created for the node.  ShowerDetectorHost._convertFrom creates channels
\* and inboxes only.
convertFrom(host, oldClass) ==
    IF host.sensorHostType = "CTU_HOST"
    THEN [host EXCEPT !.gpsCreated = @ + 1]
    ELSE host

\* MutableClass.become: the object's class is changed to the new class and
\* the new class's _convertFrom(oldClass) is run on it.  A host that is of
\* the new class already is taken to be left as it is.
become(host, newClass) ==
    IF host.sensorHostType = newClass THEN host
    ELSE convertFrom([host EXCEPT !.sensorHostType = newClass],
                     host.sensorHostType)

\* SensorHost.isType: CTU_Host and ShowerDetectorHost carry the class
\* attributes sensorHostType 'CTU_HOST' and 'SHOWER_DETECTOR'
isType(host, sensorHostType) ==
    IF sensorHostType = "CTU_GPS" THEN become(host, "CTU_HOST")
    ELSE IF sensorHostType = "SHOWER_DETECTOR"
    THEN become(host, "SHOWER_DETECTOR")
    ELSE host

\* SensorHost._handleHostStarting for a message with its two arguments
handleHostStarting(host, hostType) ==
    IF hostType = "CTU_GPS"
    THEN [isType(host, "CTU_GPS") EXCEPT !.starting = TRUE]
    ELSE IF hostType = "FEDM"
    THEN [isType(host, "SHOWER_DETECTOR") EXCEPT !.starting = TRUE]
    ELSE host

\* the host types that HOST_STARTING messages name
HostTypes == {"CTU_GPS", "FEDM", "BOGUS"}

\* SensorHost._handleHostMsg for HOST_STARTING,<type_id>,<version_id>
HostStarting(num, hostType) ==
    /\ num \in DOMAIN nodes
    /\ handleHostStarting(nodes[num].sensor_host, hostType).gpsCreated
          <= MaxGps
    /\ nodes' = [nodes EXCEPT
                   ![num].sensor_host = handleHostStarting(@, hostType)]
    /\ UNCHANGED <<nServers, servers, nCmds, lastCmd, repeated, lastSend,
                   cmdLog, escaped, nodeLogged>>

\* SensorHost._handleHostMsg for HOST_READY
HostReady(num) ==
    /\ num \in DOMAIN nodes
    /\ nodes' = [nodes EXCEPT ![num].sensor_host.starting = FALSE,
                              ![num].sensor_host.ready = TRUE]
    /\ UNCHANGED <<nServers, servers, nCmds, lastCmd, repeated, lastSend,
                   cmdLog, escaped, nodeLogged>>

HostNext ==
    \/ \E hostType \in HostTypes : HostStarting(1, hostType) /\ UNCHANGED cmdFrame
    \/ HostReady(1) /\ UNCHANGED cmdFrame
    \/ \E line \in {"START\n", "UNMUTE\n"} :
         SendHost(1, line) /\ UNCHANGED cmdFrame

HostSpec == SendInit /\ [][HostNext]_vars

---------------------------------------------------------------------------

(* SensorNet.nodeAt called from several threads.  Each thread goes through *)
(* the method statement by statement; another thread can run in between.   *)

\* a thread enters nodeAt(id, ip)
NatCall(t, id, ip) ==
    /\ nat[t].pc = "idle"
    /\ nat' = [nat EXCEPT ![t] = [pc |-> "check", id |-> id, ip |-> ip]]
    /\ UNCHANGED <<nodes, writeLock, created>>

\* "if id in self.nodes": evaluated without holding the write lock
NatCheck(t) ==
    /\ nat[t].pc = "check"
    /\ nat' = [nat EXCEPT ![t].pc =
                 IF nat[t].id \in DOMAIN nodes THEN "found" ELSE "new"]
    /\ UNCHANGED <<nodes, writeLock, created>>

\* the node is listed: keep it, relocating it if the address differs
NatFound(t) ==
    /\ nat[t].pc = "found"
    /\ nodes' = IF nat[t].ip = nodes[nat[t].id].ipaddr THEN nodes
                ELSE [nodes EXCEPT ![nat[t].id] = reloc(@, nat[t].ip)]
    /\ nat' = [nat EXCEPT ![t] = [pc |-> "idle", id |-> 0, ip |-> None]]
    /\ UNCHANGED <<writeLock, created>>

\* "with self.writeLock:" entered once the lock is free
NatAcquire(t) ==
    /\ nat[t].pc = "new"
    /\ writeLock = 0
    /\ writeLock' = t
    /\ nat' = [nat EXCEPT ![t].pc = "insert"]
    /\ UNCHANGED <<nodes, created>>

\* "self.nodes[id] = SensorNode(id, ip, self)", then the lock is released
NatInsert(t) ==
    /\ nat[t].pc = "insert"
    /\ nodes' = [i \in DOMAIN nodes \cup {nat[t].id} |->
                   IF i = nat[t].id THEN SensorNode(nat[t].ip) ELSE nodes[i]]
    /\ created' = [created EXCEPT ![nat[t].id] = @ + 1]
    /\ writeLock' = 0
    /\ nat' = [nat EXCEPT ![t] = [pc |-> "idle", id |-> 0, ip |-> None]]

NatNext ==
    \/ \E t \in Threads, id \in NodeIds, ip \in IPs :
         NatCall(t, id, ip) /\ UNCHANGED natFrame
    \/ \E t \in Threads : NatCheck(t) /\ UNCHANGED natFrame
    \/ \E t \in Threads : NatFound(t) /\ UNCHANGED natFrame
    \/ \E t \in Threads : NatAcquire(t) /\ UNCHANGED natFrame
    \/ \E t \in Threads : NatInsert(t) /\ UNCHANGED natFrame

NatSpec == Init /\ [][NatNext]_vars

\* threads subscribing while one thread publishes
PubNext ==
    \/ \E a \in Addresses, t \in Titles : subscribe(a, t) /\ UNCHANGED pubFrame
    \/ \E a \in Addresses : subscribeAll(a) /\ UNCHANGED pubFrame
    \/ \E t \in Titles : publish(t) /\ UNCHANGED pubFrame
    \/ \E ok \in BOOLEAN : deliver(ok) /\ UNCHANGED pubFrame
    \/ publish_returns /\ UNCHANGED pubFrame

PubSpec == Init /\ [][PubNext]_vars

\* strings made into sentences and stripped again
NmeaNext ==
    \/ \E s \in NmeaStrings(MaxLen) : NmeaTake(s) /\ UNCHANGED nmeaFrame
    \/ \E makeChecksum \in BOOLEAN : NmeaMake(makeChecksum) /\ UNCHANGED nmeaFrame
    \/ \E pos \in {0, 1}, bit \in 0 .. 7 : NmeaFlip(pos, bit) /\ UNCHANGED nmeaFrame
    \/ NmeaStrip /\ UNCHANGED nmeaFrame

NmeaSpec == Init /\ [][NmeaNext]_vars

---------------------------------------------------------------------------
(* Claims about the RunManager.                                            *)

AllRaisedOnce == everUp["ctu"] /\ everUp["fedm"] /\ everUp["time"]

\* C1: the start-CTU task never begins or fires unless each of ctu_ready,
\* fedm_ready and good_time has been raised at least once beforehand.
C1_StartOnlyAfterAllRaised ==
    (runTask = "_start_CTU" \/ startSent > 0) => AllRaisedOnce

\* START has been sent and the worker has run out of tasks.
C1_Witness == startSent = 1 /\ runTask = "idle" /\ worklist = << >>

\* the worker has completed its wait for good GPS time
PassedWaitGoodTime ==
    \E i \in 1..Len(taskLog) : taskLog[i] = <<"end", "_wait_good_time">>

C3_StartAtMostOnce == startSent <= 1

\* After START, ctu_ready was raised again and good_time was lowered and
\* raised again.
C3_Witness == startSent = 1 /\ {"ctu", "time"} \subseteq reraised

\* the order of the startup tasks that the run manager documents
C4_Order ==
    << "_queueStartupSequence",
       "_wait_CTU_ready", "_wait_FEDM_ready", "_wait_good_time",
       "_startTimekeeper", "_startDataCollector", "_start_CTU" >>

\* begin and end of each task of C4_Order, one task after the other
C4_Log ==
    [i \in 1..(2 * Len(C4_Order)) |->
        IF i % 2 = 1 THEN <<"begin", C4_Order[(i + 1) \div 2]>>
                     ELSE <<"end", C4_Order[i \div 2]>>]

\* C4: the startup tasks run strictly in the order wait-CTU, wait-detector,
\* wait-good-time, start-timekeeper, start-data-collector, send-START, each
\* beginning only after the previous one has completed.
C4_TasksInOrder ==
    /\ Len(taskLog) <= Len(C4_Log)
    /\ \A i \in 1..Len(taskLog) : taskLog[i] = C4_Log[i]
    /\ startSent = (IF Len(taskLog) = Len(C4_Log) THEN 1 ELSE 0)

\* The whole sequence has run, with the detector ready before the CTU.
C4_Witness ==
    /\ taskLog = C4_Log
    /\ fedm_ready /\ ctu_ready /\ nCalls = 4

---------------------------------------------------------------------------
(* Claims about the GPS manager.                                           *)

\* the conditions C5 names, on the last PDMETRAIM update: the record is
\* marked valid, not all satellites were removed, the uncertainty lies in
\* (0, 100 ns], and the time-delta check had passed
C5_ShouldBeGood ==
    LET t == traimAt[1] IN
    /\ t.rec.validNum = TRAIM_VALID_YES
    /\ ~(t.rec.nBadSats > 0 /\ t.rec.nBadSats >= t.nSats)
    /\ t.rec.timeError > 0 /\ t.rec.timeError <= 100
    /\ ~t.badTime

\* C5: on every PDMETRAIM update the manager reports good time iff the
\* record is marked valid, not all satellites were removed, the uncertainty
\* lies in (0, 100 ns] and the last GPRMC time-delta check passed; otherwise
\* it reports no-good.
C5_ReportMatchesConditions ==
    traimAt # << >> => (traimAt[1].report = "good" <=> C5_ShouldBeGood)

\* C6 as stated: good_time is up only while the latest TRAIM record is good
\* and the latest GPRMC time-delta check passed.
C6_Original ==
    good_time => /\ traimAt # << >>
                 /\ traimAt[1].good_TRAIM
                 /\ ~gps_manager.badTime

\* C6, amended: good_time is re-evaluated on PDMETRAIM updates only; it is up
\* exactly when the latest record passed _checkTRAIM's tests and badTime was
\* down when that record was handled (a GPRMC outside +/-10 s only raises
\* badTime; the flag falls at the next PDMETRAIM update).
C6_GoodTimeFollowsLastTraim ==
    good_time = (/\ traimAt # << >>
                 /\ traimAt[1].good_TRAIM
                 /\ ~traimAt[1].badTime)

\* good_time is still up although a later GPRMC has raised badTime.
C6_Witness ==
    /\ good_time
    /\ gps_manager.badTime
    /\ traimAt # << >> /\ ~traimAt[1].badTime

\* the ladder of C7: timed-out waits (seconds) and the restarts they trigger
C7_Ladder ==
    << <<"wait", "5">>, <<"restart", "hotStart">>,
       <<"wait", "5">>, <<"restart", "warmStart">>,
       <<"wait", "40">>, <<"restart", "coldStart">>,
       <<"wait", "300">> >>

\* the restart commands among the lines sent to the CTU host
C7_RestartsSent ==
    SelectSeq(sentLines,
              LAMBDA l : l \in {"GPS $PDME,0", "GPS $PDME,1", "GPS $PDME,2"})

\* C7: while no satellites are acquired, _ensureSats issues one hot restart
\* after a 5 s wait, one warm restart after a further 5 s, one cold restart
\* after a further 40 s, and after a further 300 s it blocks until satellites
\* appear; no restart is repeated, skipped or issued out of order.
C7_EscalationLadder ==
    /\ Len(ladderLog) <= Len(C7_Ladder)
    /\ ladderLog = SubSeq(C7_Ladder, 1, Len(ladderLog))
    /\ C7_RestartsSent =
         SubSeq(<<"GPS $PDME,2", "GPS $PDME,1", "GPS $PDME,0">>,
                1, Len(ladderLog) \div 2)
    /\ GM_at("sats_wait") =>
         Len(ladderLog) = (IF gps_manager.rung = 5 THEN 7
                           ELSE 2 * (gps_manager.rung - 1))
    /\ (GM_at("sats_wait") /\ gps_manager.rung = 5 /\ ~gps_module.gotSats)
         => ~ENABLED GpsManager

\* No GPGGA sentence ever arrived, the whole ladder has been climbed and the
\* manager waits for satellites without timeout.
C7_Witness ==
    /\ gps_module.nSats = NoSats
    /\ GM_at("sats_wait") /\ gps_manager.rung = 5
    /\ ladderLog = C7_Ladder

(***************************************************************************)
(* Claims about the command handler and the Wi-Fi module (CmdSpec)         *)
(***************************************************************************)

\* the registry with every turn-on and last-seen timestamp blanked
StripTimes(ns) ==
    [i \in DOMAIN ns |->
        [ns[i] EXCEPT !.onAt = NoTime, !.lastSeen = NoTime,
                      !.wifi_module.onAt = NoTime,
                      !.wifi_module.lastSeen = NoTime]]

\* C8: processing POWERED_ON for the same node id, ip and mac a second time in
\* a row leaves the registry, the node (ip, mac, status), its Wi-Fi module (ip,
\* mac, status, bridge mode, bridge-server handles) and its host exactly as
\* they were after the first time, apart from the turn-on/last-seen timestamps.
C8_PoweredOnIdempotent ==
    [][(/\ lastCmd.cmdName = "POWERED_ON"
        /\ Len(lastCmd.cmdArgs) = 2
        /\ nCmds' = nCmds + 1
        /\ lastCmd' = lastCmd)
       => /\ DOMAIN nodes' = DOMAIN nodes
          /\ StripTimes(nodes') = StripTimes(nodes)
          /\ nServers' = nServers]_vars

\* a POWERED_ON was repeated, and the node still has the two bridge servers
\* of its first power-on, no more having been created
C8_Witness ==
    /\ repeated
    /\ lastCmd.cmdName = "POWERED_ON"
    /\ Len(lastCmd.cmdArgs) = 2
    /\ nCmds = 2
    /\ lastCmd.nodeNum \in DOMAIN nodes
    /\ nodes[lastCmd.nodeNum].wifi_module.auxioServer = 1
    /\ nodes[lastCmd.nodeNum].wifi_module.uartServer = 2
    /\ nServers = 2
    /\ nodes[lastCmd.nodeNum].onAt = 2

\* the table from wire mode names to the module's mode names
C9_Translate(w) ==
    IF w = "NORMAL" THEN "DEFAULT"
    ELSE IF w = "UART-ONLY" THEN "UART"
    ELSE IF w \in {"NONE", "TREFOIL", "FLYOVER"} THEN w
    ELSE "UNSUPPORTED"

\* C9: after a BRIDGE_MODE command carrying wire mode name w, the node's stored
\* bridge mode is DEFAULT for NORMAL, UART for UART-ONLY, w itself for NONE,
\* TREFOIL and FLYOVER, and UNSUPPORTED for any other w.
C9_StoredModeIsTranslated ==
    (/\ lastCmd.cmdName = "BRIDGE_MODE"
     /\ lastCmd.nodeNum # NoNode
     /\ Len(lastCmd.cmdArgs) >= 1)
       => nodes[lastCmd.nodeNum].wifi_module.bridge_mode
            = C9_Translate(lastCmd.cmdArgs[1])

\* C10 as stated: in TREFOIL mode with the UART server present, sendHost puts
\* the line itself, without a HOST prefix, on the UART server and nothing on
\* the AUXIO server or the main connection.
C10_Original ==
    (lastSend # << >> /\ lastSend[1].bridge_mode = "TREFOIL" /\ lastSend[1].uart)
       => lastSend[1].out = << [via |-> "uart", line |-> lastSend[1].line] >>

\* C10: in TREFOIL mode with the UART server present, sendHost puts exactly one
\* message on the UART server, the line packaged as "HOST " + line, and
\* nothing on the AUXIO server or the main connection.
C10_TrefoilSendsPackagedOverUart ==
    (lastSend # << >> /\ lastSend[1].bridge_mode = "TREFOIL" /\ lastSend[1].uart)
       => lastSend[1].out
            = << [via |-> "uart", line |-> "HOST " \o lastSend[1].line] >>

\* a line was sent to the host of a powered-on node that is in TREFOIL mode
\* and has both its UART and its AUXIO server
C10_Witness ==
    /\ lastSend # << >>
    /\ lastSend[1].bridge_mode = "TREFOIL"
    /\ lastSend[1].uart
    /\ auxioSrvConnected(nodes[lastSend[1].nodeNum].wifi_module)
    /\ lastSend[1].out # << >>

\* what sendHost must transmit in DEFAULT mode, given the module's connections
C11_Expected(w, line) ==
    IF auxioSrvConnected(w) THEN << [via |-> "auxio", line |-> "HOST " \o line] >>
    ELSE IF mainSrvConnected(w) THEN << [via |-> "main", line |-> "HOST " \o line] >>
    ELSE << >>

\* C11: in DEFAULT mode sendHost(line) transmits exactly one message,
\* "HOST " + line, over the AUXIO server if there is one, otherwise over the
\* main connection if there is one, and never over the UART server, even when
\* the UART server is present.
C11_DefaultRoutesViaScript ==
    (lastSend # << >> /\ lastSend[1].bridge_mode = "DEFAULT")
       => /\ lastSend[1].out
               = C11_Expected(nodes[lastSend[1].nodeNum].wifi_module,
                              lastSend[1].line)
          /\ \A i \in DOMAIN lastSend[1].out : lastSend[1].out[i].via # "uart"

\* a line sent in DEFAULT mode with the UART server and the main connection
\* present and no AUXIO server: it went out once, over the main connection
C11_Witness ==
    /\ lastSend # << >>
    /\ lastSend[1].bridge_mode = "DEFAULT"
    /\ lastSend[1].uart
    /\ ~auxioSrvConnected(nodes[1].wifi_module)
    /\ Len(lastSend[1].out) = 1
    /\ lastSend[1].out[1].via = "main"

(***************************************************************************)
(* Claims about the SensorNet registry (NatSpec, CmdSpec)                  *)
(***************************************************************************)

\* C12: for any node id, at most one SensorNode is ever constructed and put
\* into the registry, even when several threads call nodeAt for the same
\* unknown id at once: a node that has been inserted is never replaced by a
\* second fresh one.
C12_AtMostOneSession ==
    \A id \in NodeIds : created[id] <= 1

\* C13: when nodeAt(id, ip) meets a listed node whose stored address differs
\* from ip, the stored address becomes ip on the node and on its Wi-Fi module,
\* the listed node is kept rather than created anew (its bridge mode, bridge
\* servers and host are what they were), and no other node is modified.
C13_RelocKeepsSession ==
    [][(/\ nCmds' = nCmds + 1
        /\ lastCmd'.cmdName = "POWERED_ON"
        /\ Len(lastCmd'.cmdArgs) = 2
        /\ lastCmd'.nodeNum \in DOMAIN nodes
        /\ nodes[lastCmd'.nodeNum].ipaddr # lastCmd'.cmdArgs[1])
       => LET n == lastCmd'.nodeNum
              ip == lastCmd'.cmdArgs[1]
              w0 == nodes[n].wifi_module
              w1 == nodes'[n].wifi_module
          IN /\ nodes'[n].ipaddr = ip
             /\ w1.ipaddr = ip
             /\ w1.bridge_mode = w0.bridge_mode
             /\ w0.auxioServer # NoServer => w1.auxioServer = w0.auxioServer
             /\ w0.uartServer # NoServer => w1.uartServer = w0.uartServer
             /\ nodes'[n].sensor_host = nodes[n].sensor_host
             /\ DOMAIN nodes' = DOMAIN nodes
             /\ \A o \in DOMAIN nodes \ {n} : nodes'[o] = nodes[o]]_vars

\* a node first heard of through BRIDGE_MODE TREFOIL powered on from another
\* address: it is listed at the new address and is still in TREFOIL
C13_Witness ==
    /\ lastCmd.cmdName = "POWERED_ON"
    /\ Len(lastCmd.cmdArgs) = 2
    /\ cmdLog = << "new-ip", "dhcp-hint" >>
    /\ nodes[lastCmd.nodeNum].ipaddr = lastCmd.cmdArgs[1]
    /\ nodes[lastCmd.nodeNum].wifi_module.ipaddr = lastCmd.cmdArgs[1]
    /\ nodes[lastCmd.nodeNum].wifi_module.bridge_mode = "TREFOIL"

\* C14: verifyNode(id, ip, when) on a listed node whose stored address differs
\* from ip logs the mismatch and overwrites the stored address with ip, as
\* nodeAt does, besides recording the sighting.
C14_VerifyOverwritesIp ==
    (\E i \in DOMAIN cmdLog : cmdLog[i] = "ip-mismatch")
       => nodes[lastCmd.nodeNum].ipaddr = lastCmd.sender

(***************************************************************************)
(* Claims about the command handler's treatment of bad lines (CmdSpec)     *)
(***************************************************************************)

\* the number of arguments after the node number that a command requires
C15_Required(name) ==
    IF name = "POWERED_ON" THEN 2 ELSE IF name = "LOGMSG" THEN 3 ELSE 1

\* the command line carried fewer arguments than its command requires
C15_FewerArgs(cmd) ==
    /\ cmd.cmdName \in {"POWERED_ON", "LOGMSG", "HEARTBEAT", "BRIDGE_MODE"}
    /\ \/ cmd.nodeNum = NoNode
       \/ Len(cmd.cmdArgs) < C15_Required(cmd.cmdName)

\* C15: for POWERED_ON, LOGMSG, HEARTBEAT and BRIDGE_MODE, a line with fewer
\* arguments than the command requires has no partial effect: no node is
\* created or verified, and no address, MAC, status, last-seen time or bridge
\* mode changes.
C15_FewerArgsNoEffect ==
    [][(nCmds' = nCmds + 1 /\ C15_FewerArgs(lastCmd'))
       => nodes' = nodes /\ nServers' = nServers]_vars

\* a LOGMSG with two arguments came, as second command, from a node that is
\* not listed, and it is still not listed although another node is
C15_Witness ==
    /\ nCmds = 2
    /\ lastCmd.cmdName = "LOGMSG"
    /\ lastCmd.nodeNum # NoNode
    /\ Len(lastCmd.cmdArgs) = 2
    /\ cmdLog = << "argcount" >>
    /\ lastCmd.nodeNum \notin DOMAIN nodes
    /\ nodes # << >>

\* C16: no command line (unknown word, wrong argument count, missing or
\* non-integer node number, unknown node) makes an exception leave
\* CommandHandler.process.
C16_NothingEscapesProcess == ~escaped

\* the last command was dropped as anomalous: no or no integer node number, a
\* word without a handler, or a wrong argument count that ended the handling
C17_Dropped ==
    /\ lastCmd.cmdName # None
    /\ \/ lastCmd.nodeNum = NoNode
       \/ lastCmd.cmdName \notin {"POWERED_ON", "LOGMSG", "HEARTBEAT", "BRIDGE_MODE"}
       \/ lastCmd.cmdName = "POWERED_ON" /\ Len(lastCmd.cmdArgs) # 2
       \/ lastCmd.cmdName = "LOGMSG" /\ Len(lastCmd.cmdArgs) < 3
       \/ lastCmd.cmdName = "HEARTBEAT" /\ Len(lastCmd.cmdArgs) # 1
       \/ lastCmd.cmdName = "BRIDGE_MODE" /\ Len(lastCmd.cmdArgs) = 0

\* C17: each command dropped as anomalous produces exactly one error or
\* warning record, never none and never more than one.
C17_OneRecordPerDrop == C17_Dropped => Len(cmdLog) = 1

(***************************************************************************)
(* Claims about the Publisher (PubSpec)                                    *)
(***************************************************************************)

\* the addresses that subscribed to a title, in the order of their calls
C18_SubscribersOf(log, title) ==
    LET sel == SelectSeq(log, LAMBDA e : e.title = title)
    IN [i \in DOMAIN sel |-> sel[i].address]

\* C18: one publish of an issue with title T calls, in the publishing thread
\* and before publish returns, every subscriber of T in the order in which they
\* subscribed, and then every subscribeAll subscriber in the order in which
\* they subscribed.
C18_DeliveryOrder ==
    LET expected == C18_SubscribersOf(pub.subsBefore, pub.title)
                      \o C18_SubscribersOf(pub.subsBefore, ALL)
    IN /\ pub.pc = "returned" => pub.calls = expected
       /\ pub.pc \in {"delivering", "raised"}
            => /\ Len(pub.calls) <= Len(expected)
               /\ pub.calls = SubSeq(expected, 1, Len(pub.calls))

\* a publish returned after calling two subscribers of its title and then a
\* subscribeAll subscriber, who had subscribed before one of the two
C18_Witness ==
    /\ pub.pc = "returned"
    /\ Len(pub.calls) = 3
    /\ pub.subsBefore[1].title = pub.title
    /\ pub.subsBefore[2].title = ALL
    /\ pub.subsBefore[3].title = pub.title
    /\ pub.subsBefore[1].address # pub.subsBefore[3].address

\* C19: if a subscriber raises during publish, the failure is isolated: the
\* exception does not leave publish, and the remaining subscribers of the
\* issue are still called.
C19_FailureIsolated ==
    /\ pub.pc # "raised"
    /\ pub.pc = "returned" => pub.todo = << >>

(***************************************************************************)
(* Claims about NMEA sentences (NmeaSpec)                                  *)
(***************************************************************************)

\* C20: for every string s containing neither '$' nor '*',
\* stripNMEA(makeNMEA(s, makeChecksum=True)) returns exactly s and raises
\* nothing.
C20_RoundTrip ==
    (/\ nmea.pc = "stripped"
     /\ nmea.withCRC
     /\ ~nmea.flipped
     /\ \A i \in DOMAIN nmea.line : nmea.line[i] \notin {36, 42})
       => nmea.out = [exc |-> None, line |-> nmea.line]

\* a three-character string with a two-byte character and a checksum below
\* 16 went through makeNMEA with a checksum and came back from stripNMEA
C20_Witness ==
    /\ nmea.pc = "stripped"
    /\ nmea.withCRC
    /\ ~nmea.flipped
    /\ nmea.line = << 71, 233, 44 >>
    /\ nmea.sent = << 36, 71, 233, 44, 42, 48, 49 >>
    /\ nmea.out.line = nmea.line

\* C21: for every sentence made by makeNMEA(s, makeChecksum=True), flipping
\* any single bit of its two checksum characters makes stripNMEA fail; the
\* damaged sentence is never accepted as valid.
C21_FlipDetected ==
    (nmea.pc = "stripped" /\ nmea.flipped) => nmea.out.exc # None


\* the manager's worker has got no further than waiting for the host
C22_BeforeInit ==
    gps_manager.task \in {"idle", "_queueStartupSequence", "_waitHostReady"}

\* C22: while the ready flag of the CTU host has not risen, no line has been
\* sent to the GPS module, no subscription of the manager has been made and
\* the worker of the manager has not begun _initializeGPS.
C22_NothingBeforeHostReady ==
    ~FlagBool(hostReady) =>
        /\ sentLines = << >>
        /\ gps_module.subs = {}
        /\ C22_BeforeInit
        /\ "_initializeGPS" \in {gps_manager.worklist[i] :
                                   i \in 1..Len(gps_manager.worklist)}
             \/ gps_manager.task \in {"idle", "_queueStartupSequence"}

\* host messages have arrived, the worker is blocked in _waitHostReady
C22_Witness ==
    /\ ~FlagBool(hostReady)
    /\ GM_at("_waitHostReady")
    /\ nMsgs >= 3


\* C23 as stated: every PDMETRAIM update marked not-valid that _checkTRAIM
\* sees is followed by a TRAIM-enable command ($PDME,22) sent after it.
C23_EveryInvalidReissues ==
    reissue.TRAIM.owed ~> ~reissue.TRAIM.owed

\* C23: a PDMETRAIM update marked not-valid that _checkTRAIM sees while no
\* call of _turnOnTRAIM has sent its command and is yet to return is followed
\* by a TRAIM-enable command ($PDME,22) sent after it.
C23_InvalidReissues ==
    reissue.TRAIM.due ~> ~reissue.TRAIM.due

\* a not-valid update has been seen, the re-enabling task is queued behind
\* the running one
C23_Witness ==
    /\ reissue.TRAIM.due
    /\ "_turnOnTRAIM" \in {gps_manager.worklist[i] :
                             i \in 1..Len(gps_manager.worklist)}
    /\ gps_manager.task = "_turnOnPOSHOLD"


\* C24 as stated: every PDMEPOSHOLD update reporting position-hold off that
\* _checkPOSHOLD sees is followed by a position-hold command ($PDME,21) sent
\* after it.
C24_EveryOffReissues ==
    reissue.POSHOLD.owed ~> ~reissue.POSHOLD.owed

\* C24: a PDMEPOSHOLD update reporting position-hold off that _checkPOSHOLD
\* sees while no call of _turnOnPOSHOLD has sent its command and is yet to
\* return is followed by a position-hold command ($PDME,21) sent after it.
C24_OffReissues ==
    reissue.POSHOLD.due ~> ~reissue.POSHOLD.due

\* position-hold was reported off while TRAIM is being enabled again: the
\* task is queued behind the running one
C24_Witness ==
    /\ reissue.POSHOLD.due
    /\ gps_manager.worklist = << "_turnOnPOSHOLD" >>
    /\ gps_manager.task = "_turnOnTRAIM"


\* the worker is inside _wait_PDME_conf: in pdme_inbox.wait() after a $PDME
\* command, or in resetting.waitFall() after a restart
C25_Waiting == GM_at("reset_wait") \/ (gps_manager.task # "idle" /\ AwaitsPDME)

\* C25: the worker does not stay inside _wait_PDME_conf for ever: whether or
\* not the reply comes, the wait ends (and its outcome is logged).
C25_WaitEnds == C25_Waiting ~> ~C25_Waiting


\* the two commands of the example
C26_PoweredOn ==
    [cmdName |-> "POWERED_ON", nodeNum |-> 0,
     cmdArgs |-> <<"192.168.0.10", "aa:bb:cc:dd:ee:ff">>, sender |-> None]
C26_LogMsg ==
    [cmdName |-> "LOGMSG", nodeNum |-> 0,
     cmdArgs |-> <<"INFO", "2", "hello", "world">>, sender |-> "192.168.0.10"]

\* C26: when LOGMSG 0 INFO 2 hello world from 192.168.0.10 is the command
\* after POWERED_ON 0 192.168.0.10 aa:bb:cc:dd:ee:ff, node 0 is then in the
\* registry with that address and status ON, and its logger has been given
\* "Node 0:", five spaces, "hello world".
C26_Example ==
    [][(lastCmd = C26_PoweredOn /\ lastCmd' = C26_LogMsg /\ nCmds' = nCmds + 1)
         => /\ 0 \in DOMAIN nodes'
            /\ nodes'[0].ipaddr = "192.168.0.10"
            /\ nodes'[0].status = "ON"
            /\ nodeLogged' = << [node |-> 0,
                                 text |-> "Node 0:     hello world"] >>]_vars

\* the two commands have been processed, in this order
C26_Witness ==
    /\ nCmds = 2
    /\ lastCmd = C26_LogMsg
    /\ 0 \in DOMAIN nodes
    /\ nodes[0].macaddr = "aa:bb:cc:dd:ee:ff"
    /\ nodeLogged # << >>


\* C27: the AUXIO bridge server of every node n listens on port
\* LASER_PORT + n and its UART bridge server on port MESON_PORT + n.
C27_BridgePorts ==
    \A n \in DOMAIN nodes :
      LET w == nodes[n].wifi_module IN
        /\ w.auxioServer # NoServer =>
             servers[w.auxioServer].port = LASER_PORT + n
        /\ w.uartServer # NoServer =>
             servers[w.uartServer].port = MESON_PORT + n

\* two nodes have been powered on: four servers on four ports
C27_Witness ==
    /\ DOMAIN nodes = {0, 1}
    /\ \A n \in {0, 1} : /\ nodes[n].wifi_module.auxioServer # NoServer
                         /\ nodes[n].wifi_module.uartServer # NoServer
    /\ Cardinality({servers[k].port : k \in DOMAIN servers}) = 4


\* the host line as _parseMsg sees it after strip()
C28_Line == Strip(nmea.sent)

\* the line begins with '$' and ends with '*' and two characters that are not
\* the two hexadecimal digits of the XOR of the bytes in between
C28_Mismatch ==
    /\ isNMEA(C28_Line)
    /\ Len(C28_Line) >= 4
    /\ C28_Line[Len(C28_Line) - 2] = 42
    /\ LET hi == HexVal(C28_Line[Len(C28_Line) - 1])
           lo == HexVal(C28_Line[Len(C28_Line)])
       IN \/ hi = BadHex
          \/ lo = BadHex
          \/ 16 * hi + lo # calcCRC(SubSeq(C28_Line, 2, Len(C28_Line) - 3))

\* C28: a host line that begins with '$' and whose checksum field does not
\* match is dropped by _parseMsg: it returns None without raising and logs
\* the failure.
C28_BadLineDropped ==
    (nmea.pc = "stripped" /\ C28_Mismatch)
      => /\ nmea.parsed.exc = None
         /\ nmea.parsed.ret = None
         /\ nmea.parsed.log # << >>


\* the order of the statuses: Unseen < On < Running (an AWOL status ranks
\* with the status sawAt turns it back into)
C29_Rank(status) ==
    CASE status = "UNSEEN" -> 0
      [] status \in {"ON", "ON_AWOL"} -> 1
      [] status \in {"RUNNING", "RUNNING_AWOL"} -> 2

\* C29: processing a POWERED_ON, LOGMSG, HEARTBEAT or BRIDGE_MODE command
\* lowers the status of no node of the registry, and a node that was unseen
\* before (not in the registry, or in it as UNSEEN) and is in the registry
\* after is ON or better.
C29_StatusNeverLowered ==
    [][(/\ nCmds' = nCmds + 1
        /\ lastCmd'.cmdName \in {"POWERED_ON", "LOGMSG", "HEARTBEAT",
                                 "BRIDGE_MODE"})
         => /\ \A n \in DOMAIN nodes :
                 /\ n \in DOMAIN nodes'
                 /\ C29_Rank(nodes'[n].status) >= C29_Rank(nodes[n].status)
            /\ \A n \in DOMAIN nodes' :
                 (n \notin DOMAIN nodes \/ nodes[n].status = "UNSEEN")
                   => C29_Rank(nodes'[n].status) >= 1]_vars

\* a node first heard of through a command other than POWERED_ON is in the
\* registry, ON, and a LOGMSG from another address has left it so
C29_Witness ==
    /\ nCmds = 2
    /\ lastCmd.cmdName = "LOGMSG"
    /\ lastCmd.nodeNum \in DOMAIN nodes
    /\ nodes[lastCmd.nodeNum].macaddr = None
    /\ nodes[lastCmd.nodeNum].ipaddr # lastCmd.sender
    /\ nodes[lastCmd.nodeNum].status = "ON"


\* C30: once the host of a node is of a known type, no later message changes
\* its type.
C30_HostTypeKept ==
    [][\A n \in DOMAIN nodes :
         nodes[n].sensor_host.sensorHostType # "UNKNOWN"
           => nodes'[n].sensor_host.sensorHostType
                = nodes[n].sensor_host.sensorHostType]_vars

---------------------------------------------------------------------------
(* Claims about the preconditions holding when START is sent.              *)

\* C31: whenever _start_CTU sends START, the CTU is ready, the detector is
\* ready and the good_time flag is up at that moment.
C31_StartOnlyWhenAllHold ==
    [][startSent' > startSent =>
          FlagBool(ctu_ready) /\ FlagBool(fedm_ready) /\ FlagBool(good_time)]_vars

---------------------------------------------------------------------------
(* Claims about the resetting flag of the GPS module.                      *)

\* this step hands a hot, warm or cold restart command to the CTU host
C32_RestartIssued ==
    \E kind \in {"hotStart", "warmStart", "coldStart"} :
        sentLines' = Append(sentLines, PDME_line(RestartCode(kind)))

---------------------------------------------------------------------------
(* Claims about the time check that follows each restart.                  *)

\* the GPS time is more than one minute away from the system time
C33_MoreThanAMinuteOff(td) == td * td > 60 * 60

\* the worker is inside a restart issued by the ladder of _ensureSats
C33_InRestart == gps_manager.task # "idle" /\ gps_manager.ret = "sats_wait"

\* C33: after each restart of the ladder the worker first waits for the next
\* time delta; it sends the time and position ($PDME,9) exactly when that
\* delta is beyond one minute either way; and the satellite wait that
\* follows the restart begins only after that check (and, when the time was
\* sent, after the reply to it).
C33_RecheckAfterRestart ==
    [][ /\ (C33_InRestart /\ gps_manager.pc = "reset_wait"
              /\ gps_manager'.pc # "reset_wait")
           => gps_manager'.pc = "time_wait" /\ sentLines' = sentLines
        /\ (C33_InRestart /\ gps_manager.pc = "time_wait"
              /\ gps_manager'.pc # "time_wait")
           => IF C33_MoreThanAMinuteOff(gps_module.gprmc_inbox[1])
              THEN /\ sentLines' = Append(sentLines,
                                          PDME_line(PDME_INIT_POS_TIME))
                   /\ gps_manager'.pc = "time_ack"
              ELSE /\ sentLines' = sentLines
                   /\ gps_manager'.pc = "sats_wait"
        /\ (C33_InRestart /\ gps_manager.pc # "sats_wait"
              /\ gps_manager'.pc = "sats_wait")
           => gps_manager.pc \in {"time_wait", "time_ack"} ]_vars

\* After the hot restart the clock was within a minute and nothing was
\* sent; after the warm restart it was 61 seconds off and the time was sent
\* before the next satellite wait.
C33_Witness ==
    /\ gps_manager.pc = "sats_wait"
    /\ gps_manager.rung = 3
    /\ gps_manager.badTime
    /\ gps_module.gprmc_inbox \in {<<61>>, <<-61>>}
    /\ Len(sentLines) = 4
    /\ sentLines[2] = PDME_line(PDME_HOT_START)
    /\ sentLines[3] = PDME_line(PDME_WARM_START)
    /\ sentLines[4] = PDME_line(PDME_INIT_POS_TIME)

---------------------------------------------------------------------------
(* Claims about the order of the GPS manager's startup.                    *)

\* the task is still waiting on manager m's worklist
C34_Queued(m, t) == \E i \in 1..Len(m.worklist) : m.worklist[i] = t

\* manager m has run the startup task t to its end
C34_Done(m, t) ==
    /\ ~C34_Queued(m, "_queueStartupSequence")
    /\ m.task # "_queueStartupSequence"
    /\ ~C34_Queued(m, t)
    /\ m.task # t

\* the state of manager m: 1 WaitingHostReady, 2 Initializing, 3 Monitoring
C34_State(m) ==
    IF m.task = "_monitorGPS" \/ C34_Done(m, "_monitorGPS") THEN 3
    ELSE IF m.task = "_initializeGPS" \/ C34_Done(m, "_initializeGPS") THEN 2
    ELSE 1

\* the position of the first occurrence of a line among the lines sent
\* (0 if it has not been sent)
FirstSent(lines, line) ==
    IF \E i \in 1..Len(lines) : lines[i] = line
    THEN CHOOSE i \in 1..Len(lines) :
             /\ lines[i] = line
             /\ \A j \in 1..(i - 1) : lines[j] # line
    ELSE 0

\* C34: the manager goes from WaitingHostReady to Initializing to
\* Monitoring, one state at a time and never back.  Inside Initializing the
\* worker reaches _turnOnPOSHOLD only with the satellites flag up, and the
\* first position-hold command is sent there; the first TRAIM command is sent
\* inside Initializing, after the position-hold command and the reply to it;
\* Monitoring begins only after the TRAIM command and the reply to it.
C34_StartupOrder ==
    [][ /\ C34_State(gps_manager') \in
              {C34_State(gps_manager), C34_State(gps_manager) + 1}
        /\ (gps_manager.task = "_initializeGPS"
              /\ gps_manager.pc # "_turnOnPOSHOLD"
              /\ gps_manager'.pc = "_turnOnPOSHOLD")
           => FlagBool(gps_module.gotSats)
        /\ (FirstSent(sentLines, PDME_line(PDME_POSHOLD_CTRL)) = 0
              /\ FirstSent(sentLines', PDME_line(PDME_POSHOLD_CTRL)) # 0)
           => /\ C34_State(gps_manager) = 2
              /\ gps_manager.pc = "_turnOnPOSHOLD"
        /\ (FirstSent(sentLines, PDME_line(PDME_TRAIM_CTRL)) = 0
              /\ FirstSent(sentLines', PDME_line(PDME_TRAIM_CTRL)) # 0)
           => /\ C34_State(gps_manager) = 2
              /\ FirstSent(sentLines, PDME_line(PDME_POSHOLD_CTRL)) # 0
              /\ gps_module.pdme_inbox # << >>
        /\ (C34_State(gps_manager) = 2 /\ C34_State(gps_manager') = 3)
           => /\ FirstSent(sentLines, PDME_line(PDME_TRAIM_CTRL)) # 0
              /\ gps_module.pdme_inbox # << >> ]_vars

\* The manager is in Monitoring after an initialisation in which the
\* satellites were acquired only after a restart.
C34_Witness ==
    /\ C34_State(gps_manager) = 3
    /\ gps_manager.task = "idle"
    /\ gps_manager.worklist = << >>
    /\ Len(ladderLog) >= 2
    /\ FirstSent(sentLines, PDME_line(PDME_POSHOLD_CTRL))
          < FirstSent(sentLines, PDME_line(PDME_TRAIM_CTRL))

---------------------------------------------------------------------------
(* Claims about the commands sent to the CTU host.                         *)

\* C35: START is sent to the CTU only after UNMUTE has been sent to it, and
\* neither is sent before the handler of the CTU's HOST_READY message has
\* raised the host's ready flag.
C35_StartAfterUnmute ==
    /\ FirstSent(sentLines, "START") # 0
       => /\ FirstSent(sentLines, "UNMUTE") # 0
          /\ FirstSent(sentLines, "UNMUTE") < FirstSent(sentLines, "START")
    /\ (FirstSent(sentLines, "UNMUTE") # 0 \/ FirstSent(sentLines, "START") # 0)
       => FlagBool(hostReady)

\* START has been sent, after UNMUTE, to a CTU that has announced itself;
\* the detector and the GPS time had been reported as well.
C35_Witness ==
    /\ sentLines = << "UNMUTE", "START" >>
    /\ startSent = 1
    /\ nMsgs = 1
    /\ nCalls >= 2

---------------------------------------------------------------------------
(* Claims about the lock of the GPS module.                                *)

\* the manager's worker is blocked inside GPS_Module._wait_PDME_conf
C36_Blocked(m) ==
    /\ m.task # "idle"
    /\ m.pc \in {"reset_wait", "time_ack", "poshold_ack", "traim_ack"}

---------------------------------------------------------------------------
(* Claims about the creation of the GPS proxy and the GPS manager.         *)

\* C37: for every node at most one GPS module proxy and GPS manager are
\* ever created, and they exist exactly from the moment the host's type
\* has resolved to the CTU's: none while the type is unknown, one once the
\* host is a CTU host.
C37_OneGpsPerNode ==
    \A n \in DOMAIN nodes :
       LET host == nodes[n].sensor_host IN
         /\ host.gpsCreated <= 1
         /\ host.sensorHostType = "UNKNOWN" => host.gpsCreated = 0
         /\ host.sensorHostType = "CTU_HOST" => host.gpsCreated >= 1


\* the bridge servers with the given name ever created for node n
C38_ServersOf(n, name) ==
    {k \in DOMAIN servers : servers[k].nodeID = n /\ servers[k].name = name}

\* C38: whatever POWERED_ON messages have been processed, at most one AUXIO
\* bridge server and at most one UART bridge server has been created and
\* started for each node.
C38_OneBridgeServerEach ==
    \A n \in NodeIds :
      /\ Cardinality(C38_ServersOf(n, "auxio")) <= 1
      /\ Cardinality(C38_ServersOf(n, "uart")) <= 1

\* the second of two POWERED_ON messages for a node has been processed; the
\* node has the one AUXIO and the one UART server of the first
C38_Witness ==
    /\ repeated
    /\ lastCmd.cmdName = "POWERED_ON"
    /\ Len(lastCmd.cmdArgs) = 2
    /\ nodes[lastCmd.nodeNum].wifi_module.onAt = 2
    /\ Cardinality(C38_ServersOf(lastCmd.nodeNum, "auxio")) = 1
    /\ Cardinality(C38_ServersOf(lastCmd.nodeNum, "uart")) = 1
    /\ DOMAIN servers = {1, 2}


\* the tasks named t that manager m has queued or is executing
C39_Pending(m, t) ==
    Cardinality({i \in 1..Len(m.worklist) : m.worklist[i] = t})
      + (IF m.task = t THEN 1 ELSE 0)

\* C39: for each of TRAIM and position-hold, at most one re-enabling task is
\* queued or executing on the worker of the GPS manager, however many
\* not-valid PDMETRAIM (position-hold-off PDMEPOSHOLD) updates arrive.
C39_OneReenablePending ==
    /\ C39_Pending(gps_manager, "_turnOnTRAIM") <= 1
    /\ C39_Pending(gps_manager, "_turnOnPOSHOLD") <= 1


\* a not-valid PDMETRAIM update arrived after the re-enabling task had sent
\* its command and before it returned; no second task has been queued
C39_Witness ==
    /\ gps_manager.task = "_turnOnTRAIM"
    /\ gps_manager.pc = "traim_ack"
    /\ reissue.TRAIM.owed
    /\ traimAt # << >>
    /\ traimAt[1].rec.validNum = TRAIM_VALID_NO
    /\ C39_Pending(gps_manager, "_turnOnTRAIM") = 1


\* no call of yo_GPS_time_is_good or yo_GPS_time_is_nogood is under way
C40_AllReturned == \A t \in Threads : yo[t] = "idle"

\* C40: once every call of CosmicIServer.yo_GPS_time_is_good and
\* yo_GPS_time_is_nogood has returned, calls made at the same time by
\* different threads included, the boolean gps_time_good equals the state of
\* the good_time flag of the RunManager.
C40_BooleanMatchesFlag ==
    C40_AllReturned => (gps_time_good = FlagBool(good_time))

===========================================================================
